---- MODULE Spec2Model ----
(***************************************************************************)
(* Model of the LAN configuration parameter handlers of                    *)
(* transporthandler.cpp: the Set/Get LAN Configuration Parameters          *)
(* commands, the set-in-progress latch, the DHCP mode reconciliation and   *)
(* the netmask/prefix codec.                                               *)
(***************************************************************************)
EXTENDS Integers, Naturals, Sequences, FiniteSets, TLC

(***************************************************************************)
(* Bounds of the model.                                                    *)
(***************************************************************************)
\* number of LAN channels that resolve to a network interface
NumChannels == 2

\* channel numbers accepted by isValidChannel
Channels == 1..NumChannels

\* channel numbers a request can carry: the valid ones and one that is not
ChannelInputs == 0..NumChannels

\* channels whose interface receives address, gateway, MAC and DHCP writes
NetChannels == {1}

\* the clients that issue requests concurrently
Clients == {"c1", "c2"}

(***************************************************************************)
(* Completion codes.                                                       *)
(***************************************************************************)
ccSuccess == "success"
ccReqDataLenInvalid == "request-data-length-invalid"
ccInvalidFieldRequest == "invalid-field-in-request"
ccParamNotSupported == "parameter-not-supported"
ccParamSetLocked == "parameter-locked"
ccParamReadOnly == "parameter-read-only"
ccCommandNotAvailable == "command-not-currently-available"
ccUnspecifiedError == "unspecified-error"

(***************************************************************************)
(* enum class SetStatus                                                    *)
(***************************************************************************)
Complete == 0
InProgress == 1
Commit == 2

\* EthernetInterface::DHCPConf
DHCPConf == {"none", "v4", "v6", "both"}

VARIABLES
    setStatus,      \* static std::unordered_map<uint8_t, SetStatus> setStatus
    DHCPEnabled,    \* per interface: the DHCPEnabled property (a string)
    ipObjs,         \* per interface: the IP address objects
    DefaultGateway, \* per interface: the IPv4 gateway property (a string)
    MACAddress,     \* per interface: the MACAddress property (a string)
    req,            \* the request handled last
    rsp,            \* its response: completion code and payload
    latchBefore,    \* history: the stored SetStatus of the request's channel
                    \* when a Set SetStatus handler was entered
    inflight,       \* per client: the request it has issued and that the
                    \* daemon has not handled yet
    results,        \* per client: the response it has not collected yet
    raced,          \* history: two Set SetStatus=InProgress requests for one
                    \* channel were in flight together while it was Complete
    lastDisabledVlan, \* static std::unordered_map<uint8_t, uint16_t>
    logicalPath,    \* per interface: the VLAN id of its logical object, 0
                    \* when the logical object is the physical interface
    neighObjs,      \* per interface: the static neighbor objects
    DefaultGateway6, \* per interface: the IPv6 gateway property (a string)
    solProgress     \* per channel: the Progress property of the SOL object

backend == <<DHCPEnabled, ipObjs, DefaultGateway, MACAddress, logicalPath,
             neighObjs, DefaultGateway6, solProgress>>
clients == <<inflight, results, raced>>
vars == <<setStatus, DHCPEnabled, ipObjs, DefaultGateway, MACAddress, req, rsp,
          latchBefore, inflight, results, raced, lastDisabledVlan, logicalPath,
          neighObjs, DefaultGateway6, solProgress>>

NoReq == [cmd |-> "none", channel |-> 0, reserved |-> 0, parameter |-> "none",
          data |-> <<>>]
NoRsp == [cc |-> "none", data |-> <<>>]

(***************************************************************************)
(* std::unordered_map helpers: a map is a function on the set of its keys. *)
(***************************************************************************)
\* an assignment that reaches the entry of every key, as one value shared
\* by the channels would
MapPut_Shared(m, k, v) == [x \in (DOMAIN m) \cup {k} |-> v]

MapPut(m, k, v) == [x \in (DOMAIN m) \cup {k} |-> IF x = k THEN v ELSE m[x]]

\* getSetStatus: the stored status of the channel, populating the default
\* value when the channel has no entry.  Returns the map after the call.
getSetStatusMap(m, channel) ==
    IF channel \in DOMAIN m THEN m ELSE MapPut(m, channel, Complete)

getSetStatus(m, channel) == getSetStatusMap(m, channel)[channel]

\* isValidChannel
isValidChannel(channel) == channel \in Channels

(***************************************************************************)
(* setLan, case LanParam::SetStatus.  The result is the completion code    *)
(* and the setStatus map the handler leaves behind.                        *)
(***************************************************************************)
\* a Complete case that reads the stored status and does not assign it
caseComplete_NotStored(m, channel, status) ==
    [cc |-> ccSuccess, map |-> getSetStatusMap(m, channel)]

\* case SetStatus::Complete
caseComplete(m, channel, status) ==
    [cc |-> ccSuccess,
     map |-> MapPut(getSetStatusMap(m, channel), channel, status)]

\* an InProgress case without the test of the stored status
caseInProgress_NoLock(m, channel, status) ==
    [cc |-> ccSuccess,
     map |-> MapPut(getSetStatusMap(m, channel), channel, status)]

\* an InProgress case that assigns a copy of the stored status, not the
\* reference into the map
caseInProgress_Copy(m, channel, status) ==
    IF getSetStatus(m, channel) = InProgress
      THEN [cc |-> ccParamSetLocked, map |-> getSetStatusMap(m, channel)]
      ELSE [cc |-> ccSuccess, map |-> getSetStatusMap(m, channel)]

\* case SetStatus::InProgress
caseInProgress(m, channel, status) ==
    IF getSetStatus(m, channel) = InProgress
      THEN [cc |-> ccParamSetLocked, map |-> getSetStatusMap(m, channel)]
      ELSE [cc |-> ccSuccess,
            map |-> MapPut(getSetStatusMap(m, channel), channel, status)]

\* a Commit case without the test of the stored status
caseCommit_NoTest(m, channel, status) ==
    [cc |-> ccSuccess, map |-> getSetStatusMap(m, channel)]

\* a Commit case that stores the requested status
caseCommit_Stored(m, channel, status) ==
    IF getSetStatus(m, channel) # InProgress
      THEN [cc |-> ccInvalidFieldRequest, map |-> getSetStatusMap(m, channel)]
      ELSE [cc |-> ccSuccess,
            map |-> MapPut(getSetStatusMap(m, channel), channel, status)]

\* case SetStatus::Commit
caseCommit(m, channel, status) ==
    IF getSetStatus(m, channel) # InProgress
      THEN [cc |-> ccInvalidFieldRequest, map |-> getSetStatusMap(m, channel)]
      ELSE [cc |-> ccSuccess, map |-> getSetStatusMap(m, channel)]

setLanSetStatus(m, channel, data) ==
    IF Len(data) # 1 THEN [cc |-> ccReqDataLenInvalid, map |-> m]
    ELSE
      LET flag == data[1] % 4
          rsvd == data[1] \div 4
          status == flag
      IN  IF rsvd # 0 THEN [cc |-> ccInvalidFieldRequest, map |-> m]
          ELSE IF status = Complete THEN caseComplete(m, channel, status)
          ELSE IF status = InProgress THEN caseInProgress(m, channel, status)
          ELSE IF status = Commit THEN caseCommit(m, channel, status)
          ELSE [cc |-> ccParamNotSupported, map |-> m]

\* getLan, case LanParam::SetStatus: setStatus.at(channel), Complete when the
\* channel has no entry; packed as a 2-bit field followed by 6 zero bits.
getLanSetStatus(m, channel) ==
    LET status == IF channel \in DOMAIN m THEN m[channel] ELSE Complete
    IN  <<status % 4>>

(***************************************************************************)
(* Strings the backend stores.  An address string is the sequence of its   *)
(* groups and a group is the sequence of its digits.                       *)
(***************************************************************************)
RECURSIVE Digits(_, _)
Digits(n, base) ==
    IF n < base THEN <<n>> ELSE Digits(n \div base, base) \o <<n % base>>

RECURSIVE ParseDigits(_, _)
ParseDigits(ds, base) ==
    IF Len(ds) = 0 THEN 0
    ELSE ParseDigits(SubSeq(ds, 1, Len(ds) - 1), base) * base + ds[Len(ds)]

\* addrToString<AF_INET>: inet_ntop, dotted decimal without leading zeros
addrToString(address) == [i \in 1..Len(address) |-> Digits(address[i], 10)]

\* stringToAddr<AF_INET>: inet_pton
stringToAddr(str) == [i \in 1..Len(str) |-> ParseDigits(str[i], 10)]

\* ether_ntoa: "%x:%x:%x:%x:%x:%x"
ether_ntoa(mac) == [i \in 1..Len(mac) |-> Digits(mac[i], 16)]

\* stringToMAC: ether_aton
stringToMAC(str) == [i \in 1..Len(str) |-> ParseDigits(str[i], 16)]

\* convertForMessage(EthernetInterface::DHCPConf)
convertForMessage(dhcp) ==
    "xyz.openbmc_project.Network.EthernetInterface.DHCPConf." \o dhcp

\* EthernetInterface::convertDHCPConfFromString
convertDHCPConfFromString(dhcpstr) ==
    CHOOSE d \in DHCPConf : convertForMessage(d) = dhcpstr

(***************************************************************************)
(* DHCP reconciliation.  The operators take the DHCPEnabled property of    *)
(* the logical interface and return the value written back to it.          *)
(***************************************************************************)
getDHCPProperty(prop) == convertDHCPConfFromString(prop)

\* setDHCPv4Property without the branch on the current mode for a request
\* of none
setDHCPv4Property_Cleared(prop, requestedDhcp) ==
    LET currentDhcp == getDHCPProperty(prop)
        nextDhcp ==
            IF currentDhcp = "v6" /\ requestedDhcp = "v4" THEN "both"
            ELSE IF currentDhcp = "none" /\ requestedDhcp = "v4"
                   THEN requestedDhcp
            ELSE IF requestedDhcp = "none" THEN "none"
            ELSE currentDhcp
    IN  convertForMessage(nextDhcp)

setDHCPv4Property(prop, requestedDhcp) ==
    LET currentDhcp == getDHCPProperty(prop)
        nextDhcp ==
            IF currentDhcp = "v6" /\ requestedDhcp = "v4" THEN "both"
            ELSE IF currentDhcp = "none" /\ requestedDhcp = "v4"
                   THEN requestedDhcp
            ELSE IF requestedDhcp = "none"
                   THEN IF currentDhcp = "both" THEN "v6"
                        ELSE IF currentDhcp = "v4" THEN "none"
                        ELSE "none"   \* nextDhcp keeps its initial value
            ELSE currentDhcp
    IN  convertForMessage(nextDhcp)

\* setDHCPv6Property that ignores defaultMode
setDHCPv6Property_AlwaysDefault(prop, requestedDhcp, defaultMode) ==
    LET currentDhcp == getDHCPProperty(prop)
        nextDhcp ==
            IF currentDhcp = "v4" /\ requestedDhcp = "v6" THEN "both"
            ELSE IF currentDhcp = "none" /\ requestedDhcp = "v6"
                   THEN requestedDhcp
            ELSE IF requestedDhcp = "none"
                   THEN IF currentDhcp = "both" THEN "v4"
                        ELSE IF currentDhcp = "v6" THEN "none"
                        ELSE "none"
            ELSE currentDhcp
    IN  convertForMessage(nextDhcp)

setDHCPv6Property(prop, requestedDhcp, defaultMode) ==
    LET currentDhcp == getDHCPProperty(prop)
        nextDhcp ==
            IF defaultMode
              THEN IF currentDhcp = "v4" /\ requestedDhcp = "v6" THEN "both"
                   ELSE IF currentDhcp = "none" /\ requestedDhcp = "v6"
                          THEN requestedDhcp
                   ELSE IF requestedDhcp = "none"
                          THEN IF currentDhcp = "both" THEN "v4"
                               ELSE IF currentDhcp = "v6" THEN "none"
                               ELSE "none"   \* the initial value
                   ELSE currentDhcp
              ELSE requestedDhcp
    IN  convertForMessage(nextDhcp)

(***************************************************************************)
(* Netmask and prefix.  A uint32_t is the sequence of its 32 bits, most    *)
(* significant first, so that shifts and increments wrap as in C; an       *)
(* in_addr is the sequence of its 4 bytes in network order.                *)
(***************************************************************************)
\* AddrFamily<AF_INET>::defaultPrefix
defaultPrefix == 32

Bits == 1..defaultPrefix

\* ~UINT32_C(0)
AllOnes == [i \in Bits |-> 1]

\* x << n for 0 <= n < 32
Shl(x, n) == [i \in Bits |-> IF i + n <= defaultPrefix THEN x[i + n] ELSE 0]

\* ~x
Not(x) == [i \in Bits |-> 1 - x[i]]

\* x + 1 modulo 2^32
Inc(x) == [i \in Bits |->
             IF \A j \in Bits : j > i => x[j] = 1 THEN 1 - x[i] ELSE x[i]]

\* x & y
And(x, y) == [i \in Bits |-> x[i] * y[i]]

IsZero(x) == \A i \in Bits : x[i] = 0

\* __builtin_ctz(x) for x # 0
ctz(x) ==
    LET last == CHOOSE i \in Bits : x[i] = 1 /\ \A j \in Bits : j > i => x[j] = 0
    IN  defaultPrefix - last

RECURSIVE BitsValue(_, _, _)
BitsValue(x, from, to) ==
    IF to < from THEN 0 ELSE BitsValue(x, from, to - 1) * 2 + x[to]

\* htobe32: the bytes of x in memory, network order
htobe32(x) == [k \in 1..4 |-> BitsValue(x, 8 * (k - 1) + 1, 8 * k)]

\* be32toh: the value of 4 bytes in network order
be32toh(bytes) ==
    [i \in Bits |->
        (bytes[((i - 1) \div 8) + 1] \div (2 ^ (7 - ((i - 1) % 8)))) % 2]

Ok(v) == [err |-> "", val |-> v]
Throw(e) == [err |-> e, val |-> <<>>]

\* prefixToNetmask without the case of prefix 0: the shift by 32 leaves the
\* value unchanged where the shift count is taken modulo 32
prefixToNetmask_NoZeroCase(prefix) ==
    IF prefix > 32 THEN Throw("InternalFailure")
    ELSE Ok(htobe32(Shl(AllOnes, (32 - prefix) % 32)))

prefixToNetmask(prefix) ==
    IF prefix > 32 THEN Throw("InternalFailure")
    ELSE IF prefix = 0 THEN Ok(<<0, 0, 0, 0>>)
    ELSE Ok(htobe32(Shl(AllOnes, 32 - prefix)))

\* netmaskToPrefix without the test of the bit pattern
netmaskToPrefix_NoCheck(netmask) ==
    LET x == be32toh(netmask)
    IN  Ok(IF ~IsZero(x) THEN defaultPrefix - ctz(x) ELSE 0)

netmaskToPrefix(netmask) ==
    LET x == be32toh(netmask)
    IN  IF ~IsZero(And(Not(x), Inc(Not(x)))) THEN Throw("InternalFailure")
        ELSE Ok(IF ~IsZero(x) THEN defaultPrefix - ctz(x) ELSE 0)

(***************************************************************************)
(* The network interface of a channel as the backend holds it.             *)
(***************************************************************************)
\* Valid address origins for IPv4
originsV4 == {"Static", "DHCP"}

\* enum class IPSrc
IPSrcUnspecified == 0
IPSrcStatic == 1
IPSrcDHCP == 2
IPSrcBIOS == 3
IPSrcBMC == 4

Iface(c) == [DHCPEnabled |-> DHCPEnabled[c], ipObjs |-> ipObjs[c],
             DefaultGateway |-> DefaultGateway[c], MACAddress |-> MACAddress[c]]

RECURSIVE LexLess(_, _)
LexLess(a, b) ==
    IF Len(b) = 0 THEN FALSE
    ELSE IF Len(a) = 0 THEN TRUE
    ELSE IF a[1] # b[1] THEN a[1] < b[1]
    ELSE LexLess(Tail(a), Tail(b))

\* addrToString<AF_INET6>: the 8 groups in hexadecimal, no zero compression
addrToString6(address) ==
    [g \in 1..8 |-> Digits(address[2 * g - 1] * 256 + address[2 * g], 16)]

\* stringToAddr<AF_INET6>
stringToAddr6(str) ==
    [i \in 1..16 |->
        LET group == ParseDigits(str[(i + 1) \div 2], 16)
        IN  IF i % 2 = 1 THEN group \div 256 ELSE group % 256]

\* the order of two IPv6 address objects: by the first group of the address
\* strings that differs, then by the prefix
PathBefore6(a, b) ==
    IF a.address = b.address THEN a.prefix < b.prefix
    ELSE LET g == CHOOSE k \in 1..8 :
                    /\ a.address[k] # b.address[k]
                    /\ \A j \in 1..(k - 1) : a.address[j] = b.address[j]
         IN  LexLess(a.address[g], b.address[g])

\* the order in which the object mapper enumerates address objects: by path
PathBefore(a, b) ==
    IF a.protocol = "IPv6" THEN PathBefore6(a, b)
    ELSE LexLess(stringToAddr(a.address) \o <<a.prefix>>,
                 stringToAddr(b.address) \o <<b.prefix>>)

\* findIfAddr: the idx-th address object of the protocol, in path order,
\* among those whose origin is accepted; the empty set when there is none
findIfAddr(ips, protocol, idx, origins) ==
    LET cands == {o \in ips : o.protocol = protocol /\ o.origin \in origins}
    IN  {o \in cands : Cardinality({p \in cands : PathBefore(p, o)}) = idx}

getIfAddr4(ips) == findIfAddr(ips, "IPv4", 0, originsV4)

\* createIfAddr<AF_INET>: the IP creation call of the logical interface
createIfAddr4(ips, address, prefix) ==
    ips \cup {[protocol |-> "IPv4", address |-> addrToString(address),
               prefix |-> prefix, origin |-> "Static"]}

\* the names of the errors the Delete method of an object replies with;
\* NoError is a call that returned
NoError == ""
errUnknownObject == "org.freedesktop.DBus.Error.UnknownObject"
errInternalFailure == "xyz.openbmc_project.Common.Error.InternalFailure"
errNotAllowed == "xyz.openbmc_project.Common.Error.NotAllowed"
errNoReply == "org.freedesktop.DBus.Error.NoReply"

\* the result of a call on a set of objects: the error that left the
\* function, the objects afterwards and whether the backend was called
Called(err, objs, called) == [err |-> err, val |-> objs, called |-> called]

\* deleteObjectIfExists that swallows the error of an absent object only
deleteObjectIfExistsOn_OnlyUnknown(objs, path, error) ==
    IF path = {} THEN Called(NoError, objs, FALSE)
    ELSE IF error = NoError THEN Called(NoError, objs \ path, TRUE)
    ELSE IF error # errUnknownObject THEN Called(error, objs, TRUE)
    ELSE Called(NoError, objs \ path, TRUE)

\* deleteObjectIfExists: path is the set of the object to delete, empty
\* for the empty path; error is the reply of its Delete method.  The
\* object of an UnknownObject reply is not there; a Delete that raised
\* another error left the objects as they were.
deleteObjectIfExistsOn(objs, path, error) ==
    IF path = {} THEN Called(NoError, objs, FALSE)
    ELSE IF error = NoError THEN Called(NoError, objs \ path, TRUE)
    ELSE IF error # errInternalFailure /\ error # errUnknownObject
      THEN Called(error, objs, TRUE)
    ELSE IF error = errUnknownObject THEN Called(NoError, objs \ path, TRUE)
    ELSE Called(NoError, objs, TRUE)

\* deleteObjectIfExists on an address object whose Delete returns
deleteObjectIfExists(ips, objs) == ips \ objs

\* reconfigureIfAddr4 that deletes the current address and creates nothing
reconfigureIfAddr4_NoCreate(ips, address, prefix) ==
    LET ifaddr == getIfAddr4(ips)
    IN  IF ifaddr = {} /\ address = {} THEN {Throw("InternalFailure")}
        ELSE {Ok(deleteObjectIfExists(ips, ifaddr))}

\* reconfigureIfAddr4 that creates the address whatever the delete raised
reconfigureIfAddr4On_CreateAnyway(ips, address, prefix, error) ==
    LET ifaddr == getIfAddr4(ips)
    IN  IF ifaddr = {} /\ address = {} THEN {Throw("InternalFailure")}
        ELSE IF ifaddr = {}
          THEN {Ok(createIfAddr4(ips, CHOOSE a \in address : TRUE,
                      IF prefix = {} THEN defaultPrefix
                      ELSE CHOOSE q \in prefix : TRUE)),
                Throw("abort")}
        ELSE LET old == CHOOSE o \in ifaddr : TRUE
                 fallbackPrefix == old.prefix
                 newAddr == IF address = {} THEN stringToAddr(old.address)
                            ELSE CHOOSE a \in address : TRUE
                 newPrefix == IF prefix = {} THEN fallbackPrefix
                              ELSE CHOOSE q \in prefix : TRUE
                 deleted == deleteObjectIfExistsOn(ips, ifaddr, error)
             IN  {Ok(createIfAddr4(deleted.val, newAddr, newPrefix))}

\* reconfigureIfAddr4; address and prefix are optional: {} or {value}, and
\* error is the reply of the Delete method of the current address.
\* The set of outcomes: with no current address the argument
\* address.value_or(ifaddr->address) dereferences an empty optional.
reconfigureIfAddr4On(ips, address, prefix, error) ==
    LET ifaddr == getIfAddr4(ips)
    IN  IF ifaddr = {} /\ address = {} THEN {Throw("InternalFailure")}
        ELSE IF ifaddr = {}
          THEN {Ok(createIfAddr4(ips, CHOOSE a \in address : TRUE,
                      IF prefix = {} THEN defaultPrefix
                      ELSE CHOOSE q \in prefix : TRUE)),
                Throw("abort")}
        ELSE LET old == CHOOSE o \in ifaddr : TRUE
                 fallbackPrefix == old.prefix
                 newAddr == IF address = {} THEN stringToAddr(old.address)
                            ELSE CHOOSE a \in address : TRUE
                 newPrefix == IF prefix = {} THEN fallbackPrefix
                              ELSE CHOOSE q \in prefix : TRUE
                 deleted == deleteObjectIfExistsOn(ips, ifaddr, error)
             IN  IF deleted.err # NoError THEN {Throw(deleted.err)}
                 ELSE {Ok(createIfAddr4(deleted.val, newAddr, newPrefix))}

\* reconfigureIfAddr4 on a backend whose Delete returns
reconfigureIfAddr4(ips, address, prefix) ==
    reconfigureIfAddr4On(ips, address, prefix, NoError)

\* getGatewayProperty<AF_INET>: {} when the property is the empty string
getGatewayProperty4(gw) == IF Len(gw) = 0 THEN {} ELSE {stringToAddr(gw)}

\* setGatewayProperty<AF_INET>
setGatewayProperty4(gateway) == addrToString(gateway)

getMACProperty(macStr) == stringToMAC(macStr)

setMACProperty(mac) == ether_ntoa(mac)

\* isValidMACAddress without the test for the empty address
isValidMACAddress_NoZeroTest(mac) ==
    IF mac[1] % 2 = 1 THEN FALSE
    ELSE TRUE

isValidMACAddress(mac) ==
    IF mac = <<0, 0, 0, 0, 0, 0>> THEN FALSE
    ELSE IF mac[1] % 2 = 1 THEN FALSE
    ELSE TRUE

(***************************************************************************)
(* setLan: the cases that write the interface.  Each operator returns the  *)
(* set of outcomes [cc, iface] of the case on the interface of the         *)
(* channel; cc = "abort" is a terminated process.                          *)
(***************************************************************************)
Respond(cc, iface) == [cc |-> cc, iface |-> iface]

\* the test that takes only the mode v4 for active DHCPv4
dhcpV4Active_OnlyV4(iface) ==
    getDHCPProperty(iface.DHCPEnabled) \in {"v4"}

dhcpV4Active(iface) ==
    getDHCPProperty(iface.DHCPEnabled) \in {"v4", "both"}

AddrOutcome(iface, r) ==
    IF r.err = "" THEN Respond(ccSuccess, [iface EXCEPT !.ipObjs = r.val])
    ELSE IF r.err = "abort" THEN Respond("abort", iface)
    ELSE Respond(ccUnspecifiedError, iface)

setLanIP(iface, data) ==
    IF dhcpV4Active(iface) THEN {Respond(ccCommandNotAvailable, iface)}
    ELSE IF Len(data) # 4 THEN {Respond(ccReqDataLenInvalid, iface)}
    ELSE {AddrOutcome(iface, r) : r \in reconfigureIfAddr4(iface.ipObjs, {data}, {})}

setLanIPSrc(iface, data) ==
    IF Len(data) # 1 THEN {Respond(ccReqDataLenInvalid, iface)}
    ELSE
      LET flag == data[1] % 16
          rsvd == data[1] \div 16
      IN  IF rsvd # 0 THEN {Respond(ccInvalidFieldRequest, iface)}
          ELSE IF flag = IPSrcDHCP
            THEN {Respond(ccSuccess, [iface EXCEPT !.DHCPEnabled =
                                        setDHCPv4Property(@, "v4")])}
          ELSE IF flag \in {IPSrcUnspecified, IPSrcStatic}
            THEN {Respond(ccSuccess, [iface EXCEPT !.DHCPEnabled =
                                        setDHCPv4Property(@, "none")])}
          ELSE IF flag \in {IPSrcBIOS, IPSrcBMC}
            THEN {Respond(ccInvalidFieldRequest, iface)}
          ELSE {Respond(ccParamNotSupported, iface)}

setLanMAC(iface, data) ==
    IF Len(data) # 6 THEN {Respond(ccReqDataLenInvalid, iface)}
    ELSE IF ~isValidMACAddress(data) THEN {Respond(ccInvalidFieldRequest, iface)}
    ELSE {Respond(ccSuccess, [iface EXCEPT !.MACAddress = setMACProperty(data)])}

setLanSubnetMask(iface, data) ==
    IF dhcpV4Active(iface) THEN {Respond(ccCommandNotAvailable, iface)}
    ELSE IF Len(data) # 4 THEN {Respond(ccReqDataLenInvalid, iface)}
    ELSE LET prefix == netmaskToPrefix(data)
         IN  IF prefix.err # "" THEN {Respond(ccUnspecifiedError, iface)}
             ELSE {AddrOutcome(iface, r) :
                     r \in reconfigureIfAddr4(iface.ipObjs, {}, {prefix.val})}

setLanGateway1(iface, data) ==
    IF dhcpV4Active(iface) THEN {Respond(ccCommandNotAvailable, iface)}
    ELSE IF Len(data) # 4 THEN {Respond(ccReqDataLenInvalid, iface)}
    ELSE {Respond(ccSuccess,
                  [iface EXCEPT !.DefaultGateway = setGatewayProperty4(data)])}

(***************************************************************************)
(* getLan: the response payload after the revision byte, per parameter.    *)
(***************************************************************************)
\* constexpr uint8_t current_revision = 0x11
current_revision == 17

getLanIP(iface) ==
    LET ifaddr == getIfAddr4(iface.ipObjs)
    IN  IF ifaddr = {} THEN Ok(<<0, 0, 0, 0>>)
        ELSE Ok(stringToAddr((CHOOSE o \in ifaddr : TRUE).address))

\* getLan, case LanParam::IPSrc, that reports DHCP for the mode v4 only
getLanIPSrc_OnlyV4(iface) ==
    Ok(<<IF getDHCPProperty(iface.DHCPEnabled) = "v4" THEN IPSrcDHCP
         ELSE IPSrcStatic>>)

getLanIPSrc(iface) ==
    Ok(<<IF dhcpV4Active(iface) THEN IPSrcDHCP ELSE IPSrcStatic>>)

getLanMAC(iface) == Ok(getMACProperty(iface.MACAddress))

getLanSubnetMask(iface) ==
    LET ifaddr == getIfAddr4(iface.ipObjs)
        prefix == IF ifaddr = {} THEN defaultPrefix
                  ELSE (CHOOSE o \in ifaddr : TRUE).prefix
    IN  prefixToNetmask(prefix)

getLanGateway1(iface) ==
    LET gateway == getGatewayProperty4(iface.DefaultGateway)
    IN  IF gateway = {} THEN Ok(<<0, 0, 0, 0>>)
        ELSE Ok(CHOOSE g \in gateway : TRUE)

getLanParam(m, iface, channel, parameter) ==
    CASE parameter = "SetStatus" -> Ok(getLanSetStatus(m, channel))
      [] parameter = "IP" -> getLanIP(iface)
      [] parameter = "IPSrc" -> getLanIPSrc(iface)
      [] parameter = "MAC" -> getLanMAC(iface)
      [] parameter = "SubnetMask" -> getLanSubnetMask(iface)
      [] parameter = "Gateway1" -> getLanGateway1(iface)

(***************************************************************************)
(* VLAN reconfiguration.  The operators work on the objects of one         *)
(* channel's interface: the properties of its logical object, the address  *)
(* and neighbor objects below it and the gateway properties.               *)
(***************************************************************************)
VLAN_VALUE_MASK == 4095
VLAN_ENABLE_FLAG == 32768
MAX_IPV6_STATIC_ADDRESSES == 15

\* AddrFamily<AF_INET6>::defaultPrefix
defaultPrefix6 == 128

originsV6Static == {"Static"}
originsV6Dynamic == {"DHCP", "SLAAC"}

Chan(c) == [DHCPEnabled |-> DHCPEnabled[c], ipObjs |-> ipObjs[c],
            neighObjs |-> neighObjs[c], logicalPath |-> logicalPath[c],
            DefaultGateway |-> DefaultGateway[c],
            DefaultGateway6 |-> DefaultGateway6[c]]

\* createIfAddr<AF_INET6>
createIfAddr6(ips, address, prefix) ==
    ips \cup {[protocol |-> "IPv6", address |-> addrToString6(address),
               prefix |-> prefix, origin |-> "Static"]}

\* getGatewayProperty<AF_INET6>
getGatewayProperty6(gw) == IF Len(gw) = 0 THEN {} ELSE {stringToAddr6(gw)}

\* maybeStringToAddr<family>: {} when the string is not of the family
maybeStringToAddr(family, str) ==
    IF family = "IPv4" /\ Len(str) = 4 THEN {stringToAddr(str)}
    ELSE IF family = "IPv6" /\ Len(str) = 8 THEN {stringToAddr6(str)}
    ELSE {}

\* findStaticNeighbor<family>: the neighbor object of the address, as the
\* set of at most one IfNeigh
findStaticNeighbor(neighs, family, ip) ==
    LET found == {n \in neighs : maybeStringToAddr(family, n.ip) = {ip}}
    IN  IF found = {} THEN {}
        ELSE LET n == CHOOSE x \in found : TRUE
             IN  {[ip |-> ip, mac |-> stringToMAC(n.mac)]}

\* createNeighbor<family>
createNeighbor(neighs, family, ip, mac) ==
    neighs \cup {[ip |-> IF family = "IPv4" THEN addrToString(ip)
                         ELSE addrToString6(ip),
                  mac |-> ether_ntoa(mac)]}

\* findGatewayNeighbor<family>
findGatewayNeighbor(ch, family) ==
    LET gateway == IF family = "IPv4"
                     THEN getGatewayProperty4(ch.DefaultGateway)
                     ELSE getGatewayProperty6(ch.DefaultGateway6)
    IN  IF gateway = {} THEN {}
        ELSE findStaticNeighbor(ch.neighObjs, family, CHOOSE g \in gateway : TRUE)

\* getVLANProperty: the Id property of the logical object
getVLANProperty(ch) ==
    IF ch.logicalPath = 0 THEN Ok(0)
    ELSE LET vlan == ch.logicalPath
         IN  IF vlan % (VLAN_VALUE_MASK + 1) # vlan THEN Throw("InternalFailure")
             ELSE Ok(vlan)

\* deconfigureChannel that leaves params.logicalPath at the deleted VLAN
deconfigureChannel_KeepPath(ch) ==
    [ch EXCEPT !.ipObjs = {},
               !.neighObjs = {},
               !.DHCPEnabled = setDHCPv6Property(@, "none", FALSE)]

\* deconfigureChannel: every deletable object below the interface name is
\* deleted, the VLAN object among them, and the DHCP mode of the physical
\* interface is cleared
deconfigureChannel(ch) ==
    [ch EXCEPT !.ipObjs = {},
               !.neighObjs = {},
               !.logicalPath = 0,
               !.DHCPEnabled = setDHCPv6Property(@, "none", FALSE)]

\* createVLAN: the new object carries the DHCP mode the network service
\* gives it
createVLAN(ch, vlan) ==
    IF vlan = 0 THEN {ch}
    ELSE {[ch EXCEPT !.logicalPath = vlan,
                     !.DHCPEnabled = convertForMessage(d)] : d \in DHCPConf}

\* the loop that saves the static IPv6 addresses, from index i on
RECURSIVE SaveIfAddrs6(_, _)
SaveIfAddrs6(ips, i) ==
    IF i >= MAX_IPV6_STATIC_ADDRESSES THEN {}
    ELSE LET ifaddr6 == findIfAddr(ips, "IPv6", i, originsV6Static)
         IN  IF ifaddr6 = {} THEN {}
             ELSE ifaddr6 \cup SaveIfAddrs6(ips, i + 1)

\* the part of reconfigureVLAN that re-establishes the saved settings
RestoreSaved(ch, ifaddr4, ifaddrs6, dhcp, neighbor4, neighbor6) ==
    LET ips4 == IF ifaddr4 = {} THEN ch.ipObjs
                ELSE LET a == CHOOSE o \in ifaddr4 : TRUE
                     IN  createIfAddr4(ch.ipObjs, stringToAddr(a.address),
                                       a.prefix)
        ips6 == ips4 \cup
                UNION {createIfAddr6({}, stringToAddr6(a.address), a.prefix) :
                         a \in ifaddrs6}
        n4 == IF neighbor4 = {} THEN ch.neighObjs
              ELSE LET n == CHOOSE x \in neighbor4 : TRUE
                   IN  createNeighbor(ch.neighObjs, "IPv4", n.ip, n.mac)
        n6 == IF neighbor6 = {} THEN n4
              ELSE LET n == CHOOSE x \in neighbor6 : TRUE
                   IN  createNeighbor(n4, "IPv6", n.ip, n.mac)
    IN  [ch EXCEPT !.DHCPEnabled = setDHCPv6Property(@, dhcp, FALSE),
                   !.ipObjs = ips6,
                   !.neighObjs = n6]

\* reconfigureVLAN that does not create the saved neighbors again
reconfigureVLAN_NoNeighbors(ch, vlan) ==
    LET ifaddr4 == findIfAddr(ch.ipObjs, "IPv4", 0, originsV4)
        ifaddrs6 == SaveIfAddrs6(ch.ipObjs, 0)
        dhcp == getDHCPProperty(ch.DHCPEnabled)
    IN  {RestoreSaved(c, ifaddr4, ifaddrs6, dhcp, {}, {}) :
           c \in createVLAN(deconfigureChannel(ch), vlan)}

\* reconfigureVLAN: the set of states it can leave the channel in
reconfigureVLAN(ch, vlan) ==
    LET ifaddr4 == findIfAddr(ch.ipObjs, "IPv4", 0, originsV4)
        ifaddrs6 == SaveIfAddrs6(ch.ipObjs, 0)
        dhcp == getDHCPProperty(ch.DHCPEnabled)
        neighbor4 == findGatewayNeighbor(ch, "IPv4")
        neighbor6 == findGatewayNeighbor(ch, "IPv6")
    IN  {RestoreSaved(c, ifaddr4, ifaddrs6, dhcp, neighbor4, neighbor6) :
           c \in createVLAN(deconfigureChannel(ch), vlan)}

(***************************************************************************)
(* reconfigureVLAN call by call.  A call is the operation and its          *)
(* argument; a run is the state of the interface, params.logicalPath and   *)
(* the calls made so far, each with the logical path it was sent to and    *)
(* whether it returned.  A fault names the call that fails and the error   *)
(* it replies with; at = 0 is a run without fault.                         *)
(***************************************************************************)
Call(op, arg) == [op |-> op, arg |-> arg]

ReadOps ==
    {"findIfAddr4", "findIfAddr6", "getDHCPProperty", "findGatewayNeighbor4",
     "findGatewayNeighbor6"}
DeleteOps == {"DeleteVLAN", "DeleteIP", "DeleteNeighbor"}
RestoreOps ==
    {"setDHCPv6Property", "createIfAddr4", "createIfAddr6", "createNeighbor4",
     "createNeighbor6"}

\* the address objects of a protocol in path order
InPathOrder(ips, protocol) ==
    LET objs == {o \in ips : o.protocol = protocol}
    IN  [i \in 1..Cardinality(objs) |->
            CHOOSE o \in objs :
                Cardinality({q \in objs : PathBefore(q, o)}) = i - 1]

\* the neighbor objects, those of IPv4 addresses first
NeighborsInOrder(neighs) ==
    LET n4 == {n \in neighs : Len(n.ip) = 4}
        n6 == neighs \ n4
    IN  (IF n4 = {} THEN <<>> ELSE <<CHOOSE n \in n4 : TRUE>>) \o
        (IF n6 = {} THEN <<>> ELSE <<CHOOSE n \in n6 : TRUE>>)

\* the calls of deconfigureChannel: the subtree query, a Delete for every
\* object below the interface name and the write of the DHCP mode
deconfigureChannelCalls(ch) ==
    LET ip4 == InPathOrder(ch.ipObjs, "IPv4")
        ip6 == InPathOrder(ch.ipObjs, "IPv6")
        neighs == NeighborsInOrder(ch.neighObjs)
    IN  <<Call("GetSubTree", 0)>> \o
        (IF ch.logicalPath = 0 THEN <<>>
         ELSE <<Call("DeleteVLAN", ch.logicalPath)>>) \o
        [i \in 1..Len(ip4) |-> Call("DeleteIP", ip4[i])] \o
        [i \in 1..Len(ip6) |-> Call("DeleteIP", ip6[i])] \o
        [i \in 1..Len(neighs) |-> Call("DeleteNeighbor", neighs[i])] \o
        <<Call("setDHCPv6Property.none", "none")>>

\* the calls of createVLAN: none for the id 0
createVLANCalls(vlan) ==
    IF vlan = 0 THEN <<>> ELSE <<Call("createVLAN", vlan)>>

\* the reads of reconfigureVLAN, made before anything is deleted
snapshotCalls ==
    <<Call("findIfAddr4", 0), Call("findIfAddr6", 0),
      Call("getDHCPProperty", 0), Call("findGatewayNeighbor4", 0),
      Call("findGatewayNeighbor6", 0)>>

\* createVLAN and the writes that put the saved settings back
restoreCalls(ch, vlan) ==
    LET ifaddr4 == findIfAddr(ch.ipObjs, "IPv4", 0, originsV4)
        ifaddrs6 == InPathOrder(SaveIfAddrs6(ch.ipObjs, 0), "IPv6")
        dhcp == getDHCPProperty(ch.DHCPEnabled)
        neighbor4 == findGatewayNeighbor(ch, "IPv4")
        neighbor6 == findGatewayNeighbor(ch, "IPv6")
    IN  createVLANCalls(vlan) \o
        <<Call("setDHCPv6Property", dhcp)>> \o
        (IF ifaddr4 = {} THEN <<>>
         ELSE <<Call("createIfAddr4", CHOOSE o \in ifaddr4 : TRUE)>>) \o
        [i \in 1..Len(ifaddrs6) |-> Call("createIfAddr6", ifaddrs6[i])] \o
        (IF neighbor4 = {} THEN <<>>
         ELSE <<Call("createNeighbor4", CHOOSE n \in neighbor4 : TRUE)>>) \o
        (IF neighbor6 = {} THEN <<>>
         ELSE <<Call("createNeighbor6", CHOOSE n \in neighbor6 : TRUE)>>)

\* the calls of reconfigureVLAN with the channel deconfigured before the
\* settings are read
reconfigureVLANCalls_DeleteFirst(ch, vlan) ==
    deconfigureChannelCalls(ch) \o snapshotCalls \o restoreCalls(ch, vlan)

\* the calls of reconfigureVLAN on an interface, in the order it makes them
reconfigureVLANCalls(ch, vlan) ==
    snapshotCalls \o deconfigureChannelCalls(ch) \o restoreCalls(ch, vlan)

Run(ch, path, trace) == [chan |-> ch, path |-> path, trace |-> trace]

\* the interface and params.logicalPath after a call that returned; d is
\* the DHCP mode the network service gives a new VLAN object.  A Delete
\* that replied InternalFailure (kept = TRUE) left its object.
Effect(ch, path, call, kept, d) ==
    LET op == call.op
        arg == call.arg
    IN  CASE op = "DeleteVLAN" ->
               [chan |-> IF kept THEN ch ELSE [ch EXCEPT !.logicalPath = 0],
                path |-> 0]
          [] op = "DeleteIP" ->
               [chan |-> IF kept THEN ch
                         ELSE [ch EXCEPT !.ipObjs = @ \ {arg}],
                path |-> path]
          [] op = "DeleteNeighbor" ->
               [chan |-> IF kept THEN ch
                         ELSE [ch EXCEPT !.neighObjs = @ \ {arg}],
                path |-> path]
          [] op \in {"setDHCPv6Property.none", "setDHCPv6Property"} ->
               [chan |-> [ch EXCEPT !.DHCPEnabled =
                                       setDHCPv6Property(@, arg, FALSE)],
                path |-> path]
          [] op = "createVLAN" ->
               [chan |-> [ch EXCEPT !.logicalPath = arg,
                                    !.DHCPEnabled = convertForMessage(d)],
                path |-> arg]
          [] op = "createIfAddr4" ->
               [chan |-> [ch EXCEPT !.ipObjs =
                            createIfAddr4(@, stringToAddr(arg.address),
                                          arg.prefix)],
                path |-> path]
          [] op = "createIfAddr6" ->
               [chan |-> [ch EXCEPT !.ipObjs =
                            createIfAddr6(@, stringToAddr6(arg.address),
                                          arg.prefix)],
                path |-> path]
          [] op = "createNeighbor4" ->
               [chan |-> [ch EXCEPT !.neighObjs =
                            createNeighbor(@, "IPv4", arg.ip, arg.mac)],
                path |-> path]
          [] op = "createNeighbor6" ->
               [chan |-> [ch EXCEPT !.neighObjs =
                            createNeighbor(@, "IPv6", arg.ip, arg.mac)],
                path |-> path]
          [] OTHER -> [chan |-> ch, path |-> path]

Made(call, path, ok) ==
    [op |-> call.op, arg |-> call.arg, path |-> path, ok |-> ok]

NoFault == [at |-> 0, error |-> NoError]

\* the calls from the i-th on.  The error of a Delete goes through
\* deleteObjectIfExists, which swallows two of them; the error of any other
\* call leaves the function, and no call follows it.
RECURSIVE RunCalls(_, _, _, _, _, _, _)
RunCalls(ch, path, calls, i, fault, d, trace) ==
    IF i > Len(calls) THEN [err |-> NoError] @@ Run(ch, path, trace)
    ELSE
      LET call == calls[i]
          failed == fault.at = i /\ fault.error # NoError
          swallowed == /\ call.op \in DeleteOps
                       /\ fault.error \in {errInternalFailure, errUnknownObject}
      IN  IF failed /\ ~swallowed
            THEN [err |-> fault.error] @@
                 Run(ch, path, Append(trace, Made(call, path, FALSE)))
          ELSE LET kept == failed /\ fault.error = errInternalFailure
                   e == Effect(ch, path, call, kept, d)
               IN  RunCalls(e.chan, e.path, calls, i + 1, fault, d,
                            Append(trace, Made(call, path, ~failed)))

\* reconfigureVLAN that puts the interface back as it was when a call fails
reconfigureVLANOn_Rollback(ch, vlan, fault, d) ==
    LET r == RunCalls(ch, ch.logicalPath, reconfigureVLANCalls(ch, vlan), 1,
                      fault, d, <<>>)
    IN  IF r.err = NoError THEN r ELSE [r EXCEPT !.chan = ch]

\* reconfigureVLAN with the calls it made, under a fault
reconfigureVLANOn(ch, vlan, fault, d) ==
    RunCalls(ch, ch.logicalPath, reconfigureVLANCalls(ch, vlan), 1, fault, d,
             <<>>)

VlanOutcome(cc, ch, m) == [cc |-> cc, chan |-> ch, map |-> m]

\* setLan, case LanParam::VLANId, without the test for the ids 0 and 0xFFF
setLanVLANId_NoSentinel(m, ch, channel, data) ==
    IF Len(data) # 2 THEN {VlanOutcome(ccReqDataLenInvalid, ch, m)}
    ELSE
      LET value == data[1] + 256 * data[2]
          vlanData == value % 4096
          reserved == (value \div 4096) % 8
          vlanEnable == value \div 32768
      IN  IF reserved # 0 THEN {VlanOutcome(ccInvalidFieldRequest, ch, m)}
          ELSE IF vlanEnable = 0
            THEN {VlanOutcome(ccSuccess, r, MapPut(m, channel, vlanData)) :
                    r \in reconfigureVLAN(ch, 0)}
          ELSE {VlanOutcome(ccSuccess, r, m) : r \in reconfigureVLAN(ch, vlanData)}

\* setLan, case LanParam::VLANId, that stores the id of a disable before it
\* tests the reserved bits
setLanVLANId_StoreFirst(m, ch, channel, data) ==
    IF Len(data) # 2 THEN {VlanOutcome(ccReqDataLenInvalid, ch, m)}
    ELSE
      LET value == data[1] + 256 * data[2]
          vlanData == value % 4096
          reserved == (value \div 4096) % 8
          vlanEnable == value \div 32768
          stored == IF vlanEnable = 0 THEN MapPut(m, channel, vlanData) ELSE m
      IN  IF reserved # 0 THEN {VlanOutcome(ccInvalidFieldRequest, ch, stored)}
          ELSE IF vlanEnable = 0
            THEN {VlanOutcome(ccSuccess, r, stored) : r \in reconfigureVLAN(ch, 0)}
          ELSE IF vlanData = 0 \/ vlanData = VLAN_VALUE_MASK
            THEN {VlanOutcome(ccInvalidFieldRequest, ch, m)}
          ELSE {VlanOutcome(ccSuccess, r, m) : r \in reconfigureVLAN(ch, vlanData)}

\* setLan, case LanParam::VLANId.  The payload is a 12-bit id, 3 reserved
\* bits and the enable bit, least significant byte first.
setLanVLANId(m, ch, channel, data) ==
    IF Len(data) # 2 THEN {VlanOutcome(ccReqDataLenInvalid, ch, m)}
    ELSE
      LET value == data[1] + 256 * data[2]
          vlanData == value % 4096
          reserved == (value \div 4096) % 8
          vlanEnable == value \div 32768
      IN  IF reserved # 0 THEN {VlanOutcome(ccInvalidFieldRequest, ch, m)}
          ELSE IF vlanEnable = 0
            THEN {VlanOutcome(ccSuccess, r, MapPut(m, channel, vlanData)) :
                    r \in reconfigureVLAN(ch, 0)}
          ELSE IF vlanData = 0 \/ vlanData = VLAN_VALUE_MASK
            THEN {VlanOutcome(ccInvalidFieldRequest, ch, m)}
          ELSE {VlanOutcome(ccSuccess, r, m) : r \in reconfigureVLAN(ch, vlanData)}

\* vlan | VLAN_ENABLE_FLAG on a uint16_t
WithEnableFlag(vlan) ==
    IF (vlan \div VLAN_ENABLE_FLAG) % 2 = 1 THEN vlan ELSE vlan + VLAN_ENABLE_FLAG

\* a uint16_t packed least significant byte first
Pack16(v) == <<v % 256, v \div 256>>

GetOutcome(cc, data, m, queried) ==
    [cc |-> cc, data |-> data, map |-> m, queried |-> queried]

\* getLan, case LanParam::VLANId, that reports 0 when there is no VLAN
getLanVLANId_NoLastDisabled(m, ch, channel) ==
    LET r == getVLANProperty(ch)
    IN  IF r.err # "" THEN GetOutcome(ccUnspecifiedError, <<>>, m, TRUE)
        ELSE IF r.val # 0
          THEN GetOutcome(ccSuccess,
                          <<current_revision>> \o Pack16(WithEnableFlag(r.val)),
                          m, TRUE)
        ELSE GetOutcome(ccSuccess, <<current_revision>> \o Pack16(0), m, TRUE)

\* getLan, case LanParam::VLANId, that returns the id without the flag
getLanVLANId_NoFlag(m, ch, channel) ==
    LET r == getVLANProperty(ch)
        stored == IF channel \in DOMAIN m THEN m ELSE MapPut(m, channel, 0)
    IN  IF r.err # "" THEN GetOutcome(ccUnspecifiedError, <<>>, m, TRUE)
        ELSE IF r.val # 0
          THEN GetOutcome(ccSuccess, <<current_revision>> \o Pack16(r.val),
                          m, TRUE)
        ELSE GetOutcome(ccSuccess,
                        <<current_revision>> \o Pack16(stored[channel]),
                        stored, TRUE)

\* getLan, case LanParam::VLANId, that forgets the stored id once it has
\* reported it
getLanVLANId_Consuming(m, ch, channel) ==
    LET r == getVLANProperty(ch)
        stored == IF channel \in DOMAIN m THEN m ELSE MapPut(m, channel, 0)
    IN  IF r.err # "" THEN GetOutcome(ccUnspecifiedError, <<>>, m, TRUE)
        ELSE IF r.val # 0
          THEN GetOutcome(ccSuccess,
                          <<current_revision>> \o Pack16(WithEnableFlag(r.val)),
                          m, TRUE)
        ELSE GetOutcome(ccSuccess,
                        <<current_revision>> \o Pack16(stored[channel]),
                        MapPut(m, channel, 0), TRUE)

\* getLan, case LanParam::VLANId; lastDisabledVlan[channel] inserts the
\* value 0 when the channel has no entry
getLanVLANId(m, ch, channel) ==
    LET r == getVLANProperty(ch)
        stored == IF channel \in DOMAIN m THEN m ELSE MapPut(m, channel, 0)
    IN  IF r.err # "" THEN GetOutcome(ccUnspecifiedError, <<>>, m, TRUE)
        ELSE IF r.val # 0
          THEN GetOutcome(ccSuccess,
                          <<current_revision>> \o Pack16(WithEnableFlag(r.val)),
                          m, TRUE)
        ELSE GetOutcome(ccSuccess,
                        <<current_revision>> \o Pack16(stored[channel]),
                        stored, TRUE)

(***************************************************************************)
(* getLan with all its arguments.  An outcome is the completion code, the  *)
(* payload, the lastDisabledVlan map the handler leaves behind and whether *)
(* the handler called into the network service.                            *)
(***************************************************************************)
ccParmOutOfRange == "parameter-out-of-range"

\* enum class IPv6Source
IPv6SourceStatic == 0
IPv6SourceSLAAC == 1
IPv6SourceDHCP == 2

\* enum class IPv6AddressStatus
IPv6AddressStatusActive == 0
IPv6AddressStatusDisabled == 1

originToSourceType(origin) ==
    IF origin = "Static" THEN Ok(IPv6SourceStatic)
    ELSE IF origin = "DHCP" THEN Ok(IPv6SourceDHCP)
    ELSE IF origin = "SLAAC" THEN Ok(IPv6SourceSLAAC)
    ELSE Throw("InternalFailure")

\* getLanIPv6Address: the selector, the source type with the enabled bit in
\* the most significant bit, the 16 address bytes, the prefix, the status
getLanIPv6Address(ch, set, origins) ==
    LET ifaddr == findIfAddr(ch.ipObjs, "IPv6", set, origins)
    IN  IF ifaddr = {}
          THEN Ok(<<set, IPv6SourceStatic>> \o [i \in 1..16 |-> 0] \o
                  <<defaultPrefix6, IPv6AddressStatusDisabled>>)
        ELSE LET a == CHOOSE o \in ifaddr : TRUE
                 source == originToSourceType(a.origin)
             IN  IF source.err # "" THEN source
                 ELSE Ok(<<set, source.val + 128>> \o stringToAddr6(a.address) \o
                         <<a.prefix, IPv6AddressStatusActive>>)

FromResult(r, m) ==
    IF r.err # "" THEN GetOutcome(ccUnspecifiedError, <<>>, m, TRUE)
    ELSE GetOutcome(ccSuccess, <<current_revision>> \o r.val, m, TRUE)

\* getLan, case LanParam::IPv6StaticAddresses, without the test of the set
\* selector
getLanIPv6StaticAddresses_NoBound(m, ch, set) ==
    FromResult(getLanIPv6Address(ch, set, originsV6Static), m)

\* getLan, case LanParam::IPv6StaticAddresses
getLanIPv6StaticAddresses(m, ch, set) ==
    IF set >= MAX_IPV6_STATIC_ADDRESSES
      THEN GetOutcome(ccParmOutOfRange, <<>>, m, FALSE)
    ELSE FromResult(getLanIPv6Address(ch, set, originsV6Static), m)

\* the switch of getLan on the parameter
getLanSwitch(m, status, ch, iface, channel, parameter, set, block) ==
    IF parameter = "SetStatus"
      THEN GetOutcome(ccSuccess,
                      <<current_revision>> \o getLanSetStatus(status, channel),
                      m, FALSE)
    ELSE IF parameter \in {"IP", "IPSrc", "MAC", "SubnetMask", "Gateway1"}
      THEN FromResult(getLanParam(status, iface, channel, parameter), m)
    ELSE IF parameter = "VLANId" THEN getLanVLANId(m, ch, channel)
    ELSE IF parameter = "IPv6StaticAddresses"
      THEN getLanIPv6StaticAddresses(m, ch, set)
    ELSE GetOutcome(ccParamNotSupported, <<>>, m, FALSE)

\* getLan that ignores revOnly
getLan_NoRevOnly(m, status, ch, iface, channel, reserved, revOnly, parameter, set, block) ==
    IF reserved # 0 \/ ~isValidChannel(channel)
      THEN GetOutcome(ccInvalidFieldRequest, <<>>, m, FALSE)
    ELSE getLanSwitch(m, status, ch, iface, channel, parameter, set, block)

getLan(m, status, ch, iface, channel, reserved, revOnly, parameter, set, block) ==
    IF revOnly THEN GetOutcome(ccSuccess, <<current_revision>>, m, FALSE)
    ELSE IF reserved # 0 \/ ~isValidChannel(channel)
      THEN GetOutcome(ccInvalidFieldRequest, <<>>, m, FALSE)
    ELSE getLanSwitch(m, status, ch, iface, channel, parameter, set, block)

(***************************************************************************)
(* setLan: the cases of the gateway neighbors, the IPv6 static addresses   *)
(* and the IPv6 router, on the objects of one channel's interface.         *)
(***************************************************************************)
\* setGatewayProperty<AF_INET6>
setGatewayProperty6(gateway) == addrToString6(gateway)

\* the neighbor object that findStaticNeighbor returns, as the set of at
\* most one object
findStaticNeighborPath(neighs, family, ip) ==
    LET found == {n \in neighs : maybeStringToAddr(family, n.ip) = {ip}}
    IN  IF found = {} THEN {} ELSE {CHOOSE x \in found : TRUE}

\* reconfigureGatewayMAC that keeps the neighbor the gateway had
reconfigureGatewayMAC_NoDelete(ch, family, mac) ==
    LET gateway == IF family = "IPv4"
                     THEN getGatewayProperty4(ch.DefaultGateway)
                     ELSE getGatewayProperty6(ch.DefaultGateway6)
    IN  IF gateway = {} THEN Throw("InternalFailure")
        ELSE LET g == CHOOSE x \in gateway : TRUE
             IN  Ok(createNeighbor(ch.neighObjs, family, g, mac))

\* reconfigureGatewayMAC<family>: the neighbor objects afterwards
reconfigureGatewayMAC(ch, family, mac) ==
    LET gateway == IF family = "IPv4"
                     THEN getGatewayProperty4(ch.DefaultGateway)
                     ELSE getGatewayProperty6(ch.DefaultGateway6)
    IN  IF gateway = {} THEN Throw("InternalFailure")
        ELSE LET g == CHOOSE x \in gateway : TRUE
                 neighbor == findStaticNeighborPath(ch.neighObjs, family, g)
             IN  Ok(createNeighbor(deleteObjectIfExists(ch.neighObjs, neighbor),
                                   family, g, mac))

NeighOutcome(ch, r) ==
    IF r.err = "" THEN Respond(ccSuccess, [ch EXCEPT !.neighObjs = r.val])
    ELSE Respond(ccUnspecifiedError, ch)

\* setLan, case LanParam::Gateway1MAC
setLanGateway1MAC(ch, data) ==
    IF Len(data) # 6 THEN {Respond(ccReqDataLenInvalid, ch)}
    ELSE {NeighOutcome(ch, reconfigureGatewayMAC(ch, "IPv4", data))}

\* setLan, case LanParam::IPv6StaticRouter1MAC
setLanIPv6StaticRouter1MAC(ch, data) ==
    IF Len(data) # 6 THEN {Respond(ccReqDataLenInvalid, ch)}
    ELSE {NeighOutcome(ch, reconfigureGatewayMAC(ch, "IPv6", data))}

\* setLan, case LanParam::IPv6StaticRouter1IP
setLanIPv6StaticRouter1IP(ch, data) ==
    IF Len(data) # 16 THEN {Respond(ccReqDataLenInvalid, ch)}
    ELSE {Respond(ccSuccess,
                  [ch EXCEPT !.DefaultGateway6 = setGatewayProperty6(data)])}

\* deconfigureIfAddr6: the address objects afterwards
deconfigureIfAddr6(ips, idx) ==
    LET ifaddr == findIfAddr(ips, "IPv6", idx, originsV6Static)
    IN  IF ifaddr # {} THEN deleteObjectIfExists(ips, ifaddr) ELSE ips

\* reconfigureIfAddr6 that creates the address only at a slot that holds one
reconfigureIfAddr6_OccupiedOnly(ips, idx, address, prefix) ==
    IF findIfAddr(ips, "IPv6", idx, originsV6Static) = {} THEN ips
    ELSE createIfAddr6(deconfigureIfAddr6(ips, idx), address, prefix)

\* reconfigureIfAddr6
reconfigureIfAddr6(ips, idx, address, prefix) ==
    createIfAddr6(deconfigureIfAddr6(ips, idx), address, prefix)

\* setLan, case LanParam::IPv6StaticAddresses: the set selector, 7 reserved
\* bits and the enabled bit, the address, the prefix and the status
setLanIPv6StaticAddresses(ch, data) ==
    IF Len(data) # 20 THEN {Respond(ccReqDataLenInvalid, ch)}
    ELSE
      LET set == data[1]
          rsvd == data[2] % 128
          enabled == data[2] \div 128
          ip == SubSeq(data, 3, 18)
          prefix == data[19]
      IN  IF rsvd # 0 THEN {Respond(ccInvalidFieldRequest, ch)}
          ELSE IF enabled = 1
            THEN {Respond(ccSuccess, [ch EXCEPT !.ipObjs =
                                reconfigureIfAddr6(@, set, ip, prefix)])}
          ELSE {Respond(ccSuccess, [ch EXCEPT !.ipObjs =
                                deconfigureIfAddr6(@, set)])}

\* enum class IPFamilyEnables
IPFamilyEnablesIPv4Only == 0
IPFamilyEnablesIPv6Only == 1
IPFamilyEnablesDualStack == 2

\* setLan, case LanParam::IPFamilyEnables
setLanIPFamilyEnables(ch, data) ==
    IF Len(data) # 1 THEN {Respond(ccReqDataLenInvalid, ch)}
    ELSE IF data[1] = IPFamilyEnablesDualStack THEN {Respond(ccSuccess, ch)}
    ELSE {Respond(ccParamNotSupported, ch)}

\* IPv6RouterControlFlag: the bit positions
IPv6RouterControlFlagStatic == 0
IPv6RouterControlFlagDynamic == 1

\* setLan, case LanParam::IPv6RouterControl
setLanIPv6RouterControl(ch, data) ==
    IF Len(data) # 1 THEN {Respond(ccReqDataLenInvalid, ch)}
    ELSE
      LET control == data[1]
          expected == IF getDHCPProperty(ch.DHCPEnabled) \in {"both", "v6"}
                        THEN 2 ^ IPv6RouterControlFlagDynamic
                        ELSE 2 ^ IPv6RouterControlFlagStatic
      IN  IF expected # control THEN {Respond(ccInvalidFieldRequest, ch)}
          ELSE {Respond(ccSuccess, ch)}

\* setLan, case LanParam::IPv6StaticRouter1PrefixLength
setLanIPv6StaticRouter1PrefixLength(ch, data) ==
    IF Len(data) # 1 THEN {Respond(ccReqDataLenInvalid, ch)}
    ELSE IF data[1] # 0 THEN {Respond(ccInvalidFieldRequest, ch)}
    ELSE {Respond(ccSuccess, ch)}

\* a case that accepts a prefix value of any length
setLanIPv6StaticRouter1PrefixValue_AnyLength(ch, data) ==
    {Respond(ccSuccess, ch)}

\* setLan, case LanParam::IPv6StaticRouter1PrefixValue
setLanIPv6StaticRouter1PrefixValue(ch, data) ==
    IF Len(data) # 16 THEN {Respond(ccReqDataLenInvalid, ch)}
    ELSE {Respond(ccSuccess, ch)}

(***************************************************************************)
(* setLan with all its arguments.  An outcome is the completion code, the  *)
(* objects of the channel's interface and the two maps the handler leaves  *)
(* behind.  The case cipherSuitePrivilegeLevels, which writes a file       *)
(* through code outside this one, is not part of the model.                *)
(***************************************************************************)
\* the cases that answer parameter-read-only
ReadOnlyParams == {"AuthSupport", "AuthEnables", "CiphersuiteSupport",
                   "CiphersuiteEntries", "IPFamilySupport", "IPv6Status",
                   "IPv6DynamicAddresses"}

\* the cases that read or write the objects of the interface only
IfaceParams == {"IP", "IPSrc", "MAC", "SubnetMask", "Gateway1", "Gateway1MAC",
                "IPFamilyEnables", "IPv6StaticAddresses", "IPv6RouterControl",
                "IPv6StaticRouter1IP", "IPv6StaticRouter1MAC",
                "IPv6StaticRouter1PrefixLength",
                "IPv6StaticRouter1PrefixValue"}

SetOutcome(cc, full, status, vlans) ==
    [cc |-> cc, iface |-> full, status |-> status, vlans |-> vlans]

setLanIfaceCase(full, parameter, data) ==
    CASE parameter = "IP" -> setLanIP(full, data)
      [] parameter = "IPSrc" -> setLanIPSrc(full, data)
      [] parameter = "MAC" -> setLanMAC(full, data)
      [] parameter = "SubnetMask" -> setLanSubnetMask(full, data)
      [] parameter = "Gateway1" -> setLanGateway1(full, data)
      [] parameter = "Gateway1MAC" -> setLanGateway1MAC(full, data)
      [] parameter = "IPFamilyEnables" -> setLanIPFamilyEnables(full, data)
      [] parameter = "IPv6StaticAddresses" ->
             setLanIPv6StaticAddresses(full, data)
      [] parameter = "IPv6RouterControl" -> setLanIPv6RouterControl(full, data)
      [] parameter = "IPv6StaticRouter1IP" ->
             setLanIPv6StaticRouter1IP(full, data)
      [] parameter = "IPv6StaticRouter1MAC" ->
             setLanIPv6StaticRouter1MAC(full, data)
      [] parameter = "IPv6StaticRouter1PrefixLength" ->
             setLanIPv6StaticRouter1PrefixLength(full, data)
      [] parameter = "IPv6StaticRouter1PrefixValue" ->
             setLanIPv6StaticRouter1PrefixValue(full, data)

\* setLan; full holds the objects of the interface of the channel
setLan(status, vlans, full, channel, reserved1, parameter, data) ==
    IF reserved1 # 0 \/ ~isValidChannel(channel)
      THEN {SetOutcome(ccInvalidFieldRequest, full, status, vlans)}
    ELSE IF parameter = "SetStatus"
      THEN LET r == setLanSetStatus(status, channel, data)
           IN  {SetOutcome(r.cc, full, r.map, vlans)}
    ELSE IF parameter \in ReadOnlyParams
      THEN {SetOutcome(ccParamReadOnly, full, status, vlans)}
    ELSE IF parameter = "VLANId"
      THEN {SetOutcome(o.cc, o.chan, status, o.map) :
              o \in setLanVLANId(vlans, full, channel, data)}
    ELSE IF parameter \in IfaceParams
      THEN {SetOutcome(o.cc, o.iface, status, vlans) :
              o \in setLanIfaceCase(full, parameter, data)}
    ELSE {SetOutcome(ccParamNotSupported, full, status, vlans)}

(***************************************************************************)
(* Requests.  The payloads are small samples of each parameter's encoding: *)
(* every field value the handler distinguishes, and wrong lengths.         *)
(***************************************************************************)
\* the channel number and the reserved bits of a request: every channel
\* with the reserved bits clear, and the valid ones with a reserved bit set
Headers(channels) ==
    {<<c, 0>> : c \in channels} \cup
    {<<c, 1>> : c \in {x \in channels : isValidChannel(x)}}

SetStatusPayloads == {<<0>>, <<1>>, <<2>>, <<3>>, <<4>>, <<>>, <<1, 0>>}
IPPayloads == {<<192, 168, 0, 20>>, <<10, 0, 0>>}
IPSrcPayloads == {<<0>>, <<1>>, <<2>>, <<3>>, <<4>>, <<5>>, <<18>>, <<>>}
MACPayloads == {<<0, 26, 43, 60, 77, 94>>, <<0, 0, 0, 0, 0, 0>>,
                <<1, 0, 0, 0, 0, 1>>, <<2, 0, 0>>}
SubnetMaskPayloads == {<<255, 255, 0, 0>>, <<255, 0, 255, 0>>,
                       <<255, 255, 255, 0, 0>>}
Gateway1Payloads == {<<10, 0, 0, 1>>, <<10, 0>>}

GetParams == {"SetStatus", "IP", "IPSrc", "MAC", "SubnetMask", "Gateway1"}

SetLanReq(channel, reserved1, parameter, data) ==
    [cmd |-> "setLan", channel |-> channel, reserved |-> reserved1,
     parameter |-> parameter, data |-> data]

GetLanReq(channel, reserved, parameter) ==
    [cmd |-> "getLan", channel |-> channel, reserved |-> reserved,
     parameter |-> parameter, data |-> <<>>]

Reply(cc, data) == [cc |-> cc, data |-> data]

\* the stored status as an observer sees it: -1 when the map has no entry
Stored(m, channel) == IF channel \in DOMAIN m THEN m[channel] ELSE -1

EmptyMap == [x \in {} |-> Complete]

\* the interface of the channel becomes iface
WriteIface(channel, iface) ==
    /\ DHCPEnabled' = [DHCPEnabled EXCEPT ![channel] = iface.DHCPEnabled]
    /\ ipObjs' = [ipObjs EXCEPT ![channel] = iface.ipObjs]
    /\ DefaultGateway' = [DefaultGateway EXCEPT ![channel] = iface.DefaultGateway]
    /\ MACAddress' = [MACAddress EXCEPT ![channel] = iface.MACAddress]
    /\ UNCHANGED <<logicalPath, neighObjs, DefaultGateway6, solProgress>>

\* an outcome of a case of setLan takes effect; a terminated process sends
\* no response and loses the maps it kept in memory
ApplyOutcome(channel, o) ==
    /\ WriteIface(channel, o.iface)
    /\ IF o.cc = "abort"
         THEN /\ rsp' = Reply("no-response", <<>>)
              /\ setStatus' = EmptyMap
              /\ lastDisabledVlan' = EmptyMap
         ELSE /\ rsp' = Reply(o.cc, <<>>)
              /\ UNCHANGED <<setStatus, lastDisabledVlan>>

\* setLan rejects a request with reserved bits or an invalid channel
SetLanRejected(channel, reserved1) == reserved1 # 0 \/ ~isValidChannel(channel)

RejectSetLan ==
    /\ rsp' = Reply(ccInvalidFieldRequest, <<>>)
    /\ UNCHANGED <<setStatus, lastDisabledVlan, backend>>

(***************************************************************************)
(* Set LAN Configuration Parameters, one action per parameter.             *)
(***************************************************************************)
SetLanSetStatusOn(channels) ==
    \E h \in Headers(channels), data \in SetStatusPayloads :
      LET channel == h[1]
          reserved1 == h[2]
      IN  /\ req' = SetLanReq(channel, reserved1, "SetStatus", data)
          /\ latchBefore' = Stored(setStatus, channel)
          /\ UNCHANGED clients
          /\ IF SetLanRejected(channel, reserved1) THEN RejectSetLan
             ELSE LET r == setLanSetStatus(setStatus, channel, data)
                  IN  /\ rsp' = Reply(r.cc, <<>>)
                      /\ setStatus' = r.map
                      /\ UNCHANGED <<lastDisabledVlan, backend>>

\* Set SetStatus on any channel
SetLan_SetStatus == SetLanSetStatusOn(ChannelInputs)

\* Set SetStatus on the channels whose interface is written
SetLan_SetStatusNet == SetLanSetStatusOn(NetChannels \cup {0})

SetLan_IP ==
    \E h \in Headers(NetChannels \cup {0}), data \in IPPayloads :
      LET channel == h[1]
          reserved1 == h[2]
      IN  /\ req' = SetLanReq(channel, reserved1, "IP", data)
          /\ latchBefore' = -2
          /\ UNCHANGED clients
          /\ IF SetLanRejected(channel, reserved1) THEN RejectSetLan
             ELSE \E o \in setLanIP(Iface(channel), data) :
                      ApplyOutcome(channel, o)

SetLan_IPSrc ==
    \E h \in Headers(NetChannels \cup {0}), data \in IPSrcPayloads :
      LET channel == h[1]
          reserved1 == h[2]
      IN  /\ req' = SetLanReq(channel, reserved1, "IPSrc", data)
          /\ latchBefore' = -2
          /\ UNCHANGED clients
          /\ IF SetLanRejected(channel, reserved1) THEN RejectSetLan
             ELSE \E o \in setLanIPSrc(Iface(channel), data) :
                      ApplyOutcome(channel, o)

SetLanMACOn(payloads) ==
    \E h \in Headers(NetChannels \cup {0}), data \in payloads :
      LET channel == h[1]
          reserved1 == h[2]
      IN  /\ req' = SetLanReq(channel, reserved1, "MAC", data)
          /\ latchBefore' = -2
          /\ UNCHANGED clients
          /\ IF SetLanRejected(channel, reserved1) THEN RejectSetLan
             ELSE \E o \in setLanMAC(Iface(channel), data) :
                      ApplyOutcome(channel, o)

SetLan_MAC == SetLanMACOn(MACPayloads)

SetLanSubnetMaskOn(payloads) ==
    \E h \in Headers(NetChannels \cup {0}), data \in payloads :
      LET channel == h[1]
          reserved1 == h[2]
      IN  /\ req' = SetLanReq(channel, reserved1, "SubnetMask", data)
          /\ latchBefore' = -2
          /\ UNCHANGED clients
          /\ IF SetLanRejected(channel, reserved1) THEN RejectSetLan
             ELSE \E o \in setLanSubnetMask(Iface(channel), data) :
                      ApplyOutcome(channel, o)

SetLan_SubnetMask == SetLanSubnetMaskOn(SubnetMaskPayloads)

SetLan_Gateway1 ==
    \E h \in Headers(NetChannels \cup {0}), data \in Gateway1Payloads :
      LET channel == h[1]
          reserved1 == h[2]
      IN  /\ req' = SetLanReq(channel, reserved1, "Gateway1", data)
          /\ latchBefore' = -2
          /\ UNCHANGED clients
          /\ IF SetLanRejected(channel, reserved1) THEN RejectSetLan
             ELSE \E o \in setLanGateway1(Iface(channel), data) :
                      ApplyOutcome(channel, o)

(***************************************************************************)
(* Get LAN Configuration Parameters.                                       *)
(***************************************************************************)
GetLanOn(channels, parameters) ==
    \E h \in Headers(channels), parameter \in parameters :
      LET channel == h[1]
          reserved == h[2]
      IN  /\ req' = GetLanReq(channel, reserved, parameter)
          /\ latchBefore' = -2
          /\ UNCHANGED clients
          /\ IF reserved # 0 \/ ~isValidChannel(channel)
               THEN rsp' = Reply(ccInvalidFieldRequest, <<>>)
               ELSE LET r == getLanParam(setStatus, Iface(channel), channel,
                                         parameter)
                    IN  IF r.err # ""
                          THEN rsp' = Reply(ccUnspecifiedError, <<>>)
                          ELSE rsp' = Reply(ccSuccess,
                                            <<current_revision>> \o r.val)
          /\ UNCHANGED <<setStatus, lastDisabledVlan, backend>>

\* Get SetStatus on any channel
GetLan_SetStatus == GetLanOn(ChannelInputs, {"SetStatus"})

\* Get of every parameter on the channels whose interface is written
GetLan == GetLanOn(NetChannels \cup {0}, GetParams)

(***************************************************************************)
(* The initial states and the specifications of the request handlers.      *)
(***************************************************************************)
InitialMAC == <<2, 0, 0, 0, 0, 9>>
InitialIP == <<10, 0, 0, 7>>
InitialGateway == <<10, 0, 0, 254>>

InitIfaces ==
    {[DHCPEnabled |-> convertForMessage(d), ipObjs |-> ips,
      DefaultGateway |-> gw, MACAddress |-> ether_ntoa(InitialMAC)] :
        d \in DHCPConf,
        ips \in {{}, {[protocol |-> "IPv4", address |-> addrToString(InitialIP),
                       prefix |-> 24, origin |-> "Static"]},
                     {[protocol |-> "IPv4", address |-> addrToString(InitialIP),
                       prefix |-> 24, origin |-> "DHCP"]}},
        gw \in {<<>>, addrToString(InitialGateway)}}

IdleIface ==
    [DHCPEnabled |-> convertForMessage("none"), ipObjs |-> {},
     DefaultGateway |-> <<>>, MACAddress |-> ether_ntoa(InitialMAC)]

\* a daemon that has just started, on interfaces without configuration
Init ==
    /\ setStatus = EmptyMap
    /\ DHCPEnabled = [c \in Channels |-> IdleIface.DHCPEnabled]
    /\ ipObjs = [c \in Channels |-> IdleIface.ipObjs]
    /\ DefaultGateway = [c \in Channels |-> IdleIface.DefaultGateway]
    /\ MACAddress = [c \in Channels |-> IdleIface.MACAddress]
    /\ req = NoReq
    /\ rsp = NoRsp
    /\ latchBefore = -2
    /\ inflight = [cl \in Clients |-> NoReq]
    /\ results = [cl \in Clients |-> NoRsp]
    /\ raced = FALSE
    /\ lastDisabledVlan = EmptyMap
    /\ solProgress = [c \in Channels |-> 0]
    /\ logicalPath = [c \in Channels |-> 0]
    /\ neighObjs = [c \in Channels |-> {}]
    /\ DefaultGateway6 = [c \in Channels |-> <<>>]

\* the same daemon, the interface of the first channel in one of the
\* configurations the backend can hold
InitNet ==
    /\ setStatus = EmptyMap
    /\ \E f \in InitIfaces :
        /\ DHCPEnabled = [c \in Channels |->
              IF c \in NetChannels THEN f.DHCPEnabled ELSE IdleIface.DHCPEnabled]
        /\ ipObjs = [c \in Channels |->
              IF c \in NetChannels THEN f.ipObjs ELSE IdleIface.ipObjs]
        /\ DefaultGateway = [c \in Channels |->
              IF c \in NetChannels THEN f.DefaultGateway
              ELSE IdleIface.DefaultGateway]
        /\ MACAddress = [c \in Channels |-> IdleIface.MACAddress]
    /\ req = NoReq
    /\ rsp = NoRsp
    /\ latchBefore = -2
    /\ inflight = [cl \in Clients |-> NoReq]
    /\ results = [cl \in Clients |-> NoRsp]
    /\ raced = FALSE
    /\ lastDisabledVlan = EmptyMap
    /\ solProgress = [c \in Channels |-> 0]
    /\ logicalPath = [c \in Channels |-> 0]
    /\ neighObjs = [c \in Channels |-> {}]
    /\ DefaultGateway6 = [c \in Channels |-> <<>>]

\* The set-in-progress latch of every channel
Next ==
    \/ SetLan_SetStatus
    \/ GetLan_SetStatus

Spec == Init /\ [][Next]_vars

\* The latch and the interface parameters of one channel
NextNet ==
    \/ SetLan_SetStatusNet
    \/ SetLan_IP
    \/ SetLan_IPSrc
    \/ SetLan_MAC
    \/ SetLan_SubnetMask
    \/ SetLan_Gateway1
    \/ GetLan

SpecNet == InitNet /\ [][NextNet]_vars

(***************************************************************************)
(* The DHCP reconciliation functions called directly, on every current     *)
(* mode and with every argument.                                           *)
(***************************************************************************)
Call_setDHCPv4Property ==
    \E channel \in Channels, requestedDhcp \in DHCPConf :
        /\ req' = [cmd |-> "setDHCPv4Property", channel |-> channel,
                   requestedDhcp |-> requestedDhcp, defaultMode |-> TRUE,
                   currentDhcp |-> getDHCPProperty(DHCPEnabled[channel])]
        /\ DHCPEnabled' = [DHCPEnabled EXCEPT ![channel] =
                             setDHCPv4Property(@, requestedDhcp)]
        /\ rsp' = NoRsp
        /\ UNCHANGED <<setStatus, ipObjs, DefaultGateway, MACAddress,
                       latchBefore, clients, lastDisabledVlan, logicalPath,
                       neighObjs, DefaultGateway6, solProgress>>

Call_setDHCPv6Property ==
    \E channel \in Channels, requestedDhcp \in DHCPConf,
       defaultMode \in BOOLEAN :
        /\ req' = [cmd |-> "setDHCPv6Property", channel |-> channel,
                   requestedDhcp |-> requestedDhcp, defaultMode |-> defaultMode,
                   currentDhcp |-> getDHCPProperty(DHCPEnabled[channel])]
        /\ DHCPEnabled' = [DHCPEnabled EXCEPT ![channel] =
                             setDHCPv6Property(@, requestedDhcp, defaultMode)]
        /\ rsp' = NoRsp
        /\ UNCHANGED <<setStatus, ipObjs, DefaultGateway, MACAddress,
                       latchBefore, clients, lastDisabledVlan, logicalPath,
                       neighObjs, DefaultGateway6, solProgress>>

InitDHCP ==
    /\ setStatus = EmptyMap
    /\ DHCPEnabled \in [Channels -> {convertForMessage(d) : d \in DHCPConf}]
    /\ ipObjs = [c \in Channels |-> IdleIface.ipObjs]
    /\ DefaultGateway = [c \in Channels |-> IdleIface.DefaultGateway]
    /\ MACAddress = [c \in Channels |-> IdleIface.MACAddress]
    /\ req = NoReq
    /\ rsp = NoRsp
    /\ latchBefore = -2
    /\ inflight = [cl \in Clients |-> NoReq]
    /\ results = [cl \in Clients |-> NoRsp]
    /\ raced = FALSE
    /\ lastDisabledVlan = EmptyMap
    /\ solProgress = [c \in Channels |-> 0]
    /\ logicalPath = [c \in Channels |-> 0]
    /\ neighObjs = [c \in Channels |-> {}]
    /\ DefaultGateway6 = [c \in Channels |-> <<>>]

NextDHCP ==
    \/ Call_setDHCPv4Property
    \/ Call_setDHCPv6Property

SpecDHCP == InitDHCP /\ [][NextDHCP]_vars

(***************************************************************************)
(* The netmask codec called directly: prefixToNetmask on every uint8_t,    *)
(* and netmaskToPrefix on the netmask the last call returned.              *)
(***************************************************************************)
PrefixInputs == 0..255

Call_prefixToNetmask ==
    \E prefix \in PrefixInputs :
        /\ req' = [cmd |-> "prefixToNetmask", prefix |-> prefix]
        /\ rsp' = prefixToNetmask(prefix)
        /\ UNCHANGED <<setStatus, lastDisabledVlan, backend, latchBefore,
                       clients>>

Call_netmaskToPrefix ==
    /\ req.cmd = "prefixToNetmask"
    /\ rsp.err = ""
    /\ req' = [cmd |-> "netmaskToPrefix", netmask |-> rsp.val,
               prefix |-> req.prefix]
    /\ rsp' = netmaskToPrefix(rsp.val)
    /\ UNCHANGED <<setStatus, lastDisabledVlan, backend, latchBefore,
                       clients>>

NextMask ==
    \/ Call_prefixToNetmask
    \/ Call_netmaskToPrefix

SpecMask == Init /\ [][NextMask]_vars

(***************************************************************************)
(* Set and Get of the VLAN id on every channel.                            *)
(***************************************************************************)
\* the payload of Set VLANId
VlanPayload(id, reserved, enable) ==
    Pack16(id + 4096 * reserved + VLAN_ENABLE_FLAG * enable)

\* disable with three ids, enable with a valid id and with the two ids that
\* are refused, reserved bits, and wrong lengths
VLANIdPayloads ==
    {VlanPayload(id, 0, 0) : id \in {0, 7, VLAN_VALUE_MASK}} \cup
    {VlanPayload(id, 0, 1) : id \in {0, 100, VLAN_VALUE_MASK}} \cup
    {VlanPayload(100, 1, 1), VlanPayload(7, 4, 0), VlanPayload(0, 7, 1)} \cup
    {<<100>>, <<100, 128, 0>>}

\* the objects of the channel's interface become ch
WriteChan(channel, ch) ==
    /\ DHCPEnabled' = [DHCPEnabled EXCEPT ![channel] = ch.DHCPEnabled]
    /\ ipObjs' = [ipObjs EXCEPT ![channel] = ch.ipObjs]
    /\ neighObjs' = [neighObjs EXCEPT ![channel] = ch.neighObjs]
    /\ logicalPath' = [logicalPath EXCEPT ![channel] = ch.logicalPath]
    /\ UNCHANGED <<DefaultGateway, DefaultGateway6, MACAddress, solProgress>>

SetLanVLANIdOn(channels, payloads) ==
    \E h \in Headers(channels), data \in payloads :
      LET channel == h[1]
          reserved1 == h[2]
      IN  /\ req' = SetLanReq(channel, reserved1, "VLANId", data)
          /\ latchBefore' = -2
          /\ UNCHANGED clients
          /\ IF SetLanRejected(channel, reserved1) THEN RejectSetLan
             ELSE \E o \in setLanVLANId(lastDisabledVlan, Chan(channel),
                                        channel, data) :
                      /\ WriteChan(channel, o.chan)
                      /\ lastDisabledVlan' = o.map
                      /\ rsp' = Reply(o.cc, <<>>)
                      /\ UNCHANGED setStatus

SetLan_VLANId == SetLanVLANIdOn(ChannelInputs, VLANIdPayloads)

GetLanArgs(channel, reserved, revOnly, parameter, set, block) ==
    [cmd |-> "getLan", channel |-> channel, reserved |-> reserved,
     revOnly |-> revOnly, parameter |-> parameter, set |-> set,
     block |-> block, data |-> <<>>]

GetLanWith(headers, revOnlys, parameters, sets, blocks) ==
    \E h \in headers, revOnly \in revOnlys, parameter \in parameters,
       set \in sets, block \in blocks :
      LET channel == h[1]
          reserved == h[2]
          o == getLan(lastDisabledVlan, setStatus, Chan(channel),
                      Iface(channel), channel, reserved, revOnly, parameter,
                      set, block)
      IN  /\ req' = GetLanArgs(channel, reserved, revOnly, parameter, set,
                               block)
          /\ rsp' = [cc |-> o.cc, data |-> o.data, queried |-> o.queried]
          /\ lastDisabledVlan' = o.map
          /\ latchBefore' = -2
          /\ UNCHANGED <<setStatus, backend, clients>>

GetLan_VLANId ==
    GetLanWith(Headers(ChannelInputs), {FALSE}, {"VLANId"}, {0}, {0})

\* interfaces without configuration, with and without a VLAN
InitVlan ==
    /\ setStatus = EmptyMap
    /\ lastDisabledVlan = EmptyMap
    /\ solProgress = [c \in Channels |-> 0]
    /\ DHCPEnabled = [c \in Channels |-> IdleIface.DHCPEnabled]
    /\ ipObjs = [c \in Channels |-> IdleIface.ipObjs]
    /\ DefaultGateway = [c \in Channels |-> IdleIface.DefaultGateway]
    /\ MACAddress = [c \in Channels |-> IdleIface.MACAddress]
    /\ logicalPath \in [Channels -> {0, 100}]
    /\ neighObjs = [c \in Channels |-> {}]
    /\ DefaultGateway6 = [c \in Channels |-> <<>>]
    /\ req = NoReq
    /\ rsp = NoRsp
    /\ latchBefore = -2
    /\ inflight = [cl \in Clients |-> NoReq]
    /\ results = [cl \in Clients |-> NoRsp]
    /\ raced = FALSE

NextVlan ==
    \/ SetLan_VLANId
    \/ GetLan_VLANId

SpecVlan == InitVlan /\ [][NextVlan]_vars

(***************************************************************************)
(* Set VLANId on an interface that carries addresses, a DHCP mode and      *)
(* gateway neighbors.                                                      *)
(***************************************************************************)
\* fd00::k
StaticAddr6(k) == [i \in 1..16 |-> IF i = 1 THEN 253 ELSE IF i = 16 THEN k ELSE 0]

\* fe80::1, assigned by SLAAC
AutoAddr6 == [i \in 1..16 |-> IF i = 1 THEN 254 ELSE IF i = 2 THEN 128
                                ELSE IF i = 16 THEN 1 ELSE 0]

InitialGateway6 == StaticAddr6(254)
GatewayMAC == <<0, 17, 34, 51, 68, 85>>
GatewayMAC6 == <<0, 17, 34, 51, 68, 102>>

\* the numbers of static IPv6 addresses an interface starts with: a few,
\* and as many as there are set selectors and one more
FewStatic == {0, 1, 2}
ManyStatic == {MAX_IPV6_STATIC_ADDRESSES, MAX_IPV6_STATIC_ADDRESSES + 1}

Addrs6(n, slaac) ==
    {[protocol |-> "IPv6", address |-> addrToString6(StaticAddr6(k)),
      prefix |-> 64, origin |-> "Static"] : k \in 1..n} \cup
    (IF slaac THEN {[protocol |-> "IPv6", address |-> addrToString6(AutoAddr6),
                     prefix |-> 64, origin |-> "SLAAC"]}
     ELSE {})

\* no gateway, a gateway without a neighbor, a gateway with its neighbor
Gateways4 ==
    {[gw |-> <<>>, neigh |-> {}],
     [gw |-> addrToString(InitialGateway), neigh |-> {}],
     [gw |-> addrToString(InitialGateway),
      neigh |-> {[ip |-> addrToString(InitialGateway),
                  mac |-> ether_ntoa(GatewayMAC)]}]}

Gateways6 ==
    {[gw |-> <<>>, neigh |-> {}],
     [gw |-> addrToString6(InitialGateway6),
      neigh |-> {[ip |-> addrToString6(InitialGateway6),
                  mac |-> ether_ntoa(GatewayMAC6)]}]}

InitChan(f, n, slaac, g4, g6, vlan) ==
    [DHCPEnabled |-> f.DHCPEnabled,
     ipObjs |-> f.ipObjs \cup Addrs6(n, slaac),
     neighObjs |-> g4.neigh \cup g6.neigh,
     logicalPath |-> vlan,
     DefaultGateway |-> g4.gw,
     DefaultGateway6 |-> g6.gw]

\* every configuration with few static IPv6 addresses, and the full
\* configuration of each family with many
InitChans ==
    {InitChan(f, n, slaac, g4, g6, vlan) :
        f \in {i \in InitIfaces : i.DefaultGateway = <<>>},
        n \in FewStatic, slaac \in BOOLEAN,
        g4 \in Gateways4, g6 \in Gateways6, vlan \in {0, 200}} \cup
    {InitChan(f, n, slaac, g4, g6, vlan) :
        f \in {i \in InitIfaces :
                 /\ i.DefaultGateway = <<>>
                 /\ getDHCPProperty(i.DHCPEnabled) = "both"
                 /\ \E o \in i.ipObjs : o.origin = "Static"},
        n \in ManyStatic, slaac \in BOOLEAN,
        g4 \in {g \in Gateways4 : g.neigh # {}},
        g6 \in {g \in Gateways6 : g.neigh # {}}, vlan \in {0, 200}}

\* interfaces that carry nothing but IPv6 addresses
InitChansGet ==
    {InitChan(f, n, FALSE, g4, g6, vlan) :
        f \in {i \in InitIfaces : /\ i.DefaultGateway = <<>>
                                  /\ getDHCPProperty(i.DHCPEnabled) = "none"
                                  /\ i.ipObjs = {}},
        n \in FewStatic \cup ManyStatic,
        g4 \in {g \in Gateways4 : g.gw = <<>>},
        g6 \in {g \in Gateways6 : g.gw = <<>>}, vlan \in {0, 200}}

\* the daemon has just started; the interface of the first channel is ch
InitOn(ch) ==
    /\ setStatus = EmptyMap
    /\ lastDisabledVlan = EmptyMap
    /\ solProgress = [c \in Channels |-> 0]
    /\ DHCPEnabled = [c \in Channels |->
          IF c \in NetChannels THEN ch.DHCPEnabled ELSE IdleIface.DHCPEnabled]
    /\ ipObjs = [c \in Channels |->
          IF c \in NetChannels THEN ch.ipObjs ELSE IdleIface.ipObjs]
    /\ DefaultGateway = [c \in Channels |->
          IF c \in NetChannels THEN ch.DefaultGateway
          ELSE IdleIface.DefaultGateway]
    /\ MACAddress = [c \in Channels |-> IdleIface.MACAddress]
    /\ logicalPath = [c \in Channels |->
          IF c \in NetChannels THEN ch.logicalPath ELSE 0]
    /\ neighObjs = [c \in Channels |->
          IF c \in NetChannels THEN ch.neighObjs ELSE {}]
    /\ DefaultGateway6 = [c \in Channels |->
          IF c \in NetChannels THEN ch.DefaultGateway6 ELSE <<>>]
    /\ req = NoReq
    /\ rsp = NoRsp
    /\ latchBefore = -2
    /\ inflight = [cl \in Clients |-> NoReq]
    /\ results = [cl \in Clients |-> NoRsp]
    /\ raced = FALSE

InitRestore == \E ch \in InitChans : InitOn(ch)

\* enable with two ids, and disable
VLANIdPayloadsNet ==
    {VlanPayload(100, 0, 1), VlanPayload(200, 0, 1), VlanPayload(7, 0, 0)}

SetLan_VLANIdNet == SetLanVLANIdOn(NetChannels \cup {0}, VLANIdPayloadsNet)

NextRestore == SetLan_VLANIdNet

SpecRestore == InitRestore /\ [][NextRestore]_vars

(***************************************************************************)
(* Get with every argument, on interfaces with static IPv6 addresses.      *)
(***************************************************************************)
AllParams == GetParams \cup {"VLANId", "IPv6StaticAddresses", "AuthSupport"}

\* set selectors around the bound, block selectors
SetInputs == {0, 1, 2, MAX_IPV6_STATIC_ADDRESSES - 1, MAX_IPV6_STATIC_ADDRESSES,
              MAX_IPV6_STATIC_ADDRESSES + 1, 255}
BlockInputs == {0, 1}

\* every channel number and both values of the reserved bits
AllHeaders == {<<c, r>> : c \in NetChannels \cup {0}, r \in {0, 1}}

GetLan_RevOnly ==
    GetLanWith(AllHeaders, {TRUE}, AllParams, {0, 255}, BlockInputs)

GetLan_IPv6StaticAddresses ==
    GetLanWith(Headers(NetChannels \cup {0}), {FALSE}, {"IPv6StaticAddresses"},
               SetInputs, {0})

GetLan_VLANIdNet ==
    GetLanWith(Headers(NetChannels \cup {0}), {FALSE}, {"VLANId"}, {0}, {0})

InitGet == \E ch \in InitChansGet : InitOn(ch)

NextGet ==
    \/ GetLan_RevOnly
    \/ GetLan_IPv6StaticAddresses
    \/ GetLan_VLANIdNet

SpecGet == InitGet /\ [][NextGet]_vars

(***************************************************************************)
(* Set of every parameter.  The initial state holds a request that has     *)
(* arrived, on an interface in one of its configurations and a daemon that *)
(* has or has not stored a status and a VLAN id; the handler runs once.    *)
(***************************************************************************)
\* every object and property of the interface of a channel
Full(c) == Chan(c) @@ [MACAddress |-> MACAddress[c]]

WriteFull(channel, full) ==
    /\ DHCPEnabled' = [DHCPEnabled EXCEPT ![channel] = full.DHCPEnabled]
    /\ ipObjs' = [ipObjs EXCEPT ![channel] = full.ipObjs]
    /\ neighObjs' = [neighObjs EXCEPT ![channel] = full.neighObjs]
    /\ logicalPath' = [logicalPath EXCEPT ![channel] = full.logicalPath]
    /\ DefaultGateway' = [DefaultGateway EXCEPT ![channel] = full.DefaultGateway]
    /\ DefaultGateway6' = [DefaultGateway6 EXCEPT ![channel] =
                             full.DefaultGateway6]
    /\ MACAddress' = [MACAddress EXCEPT ![channel] = full.MACAddress]
    /\ UNCHANGED solProgress

\* the payload of Set IPv6StaticAddresses
Static6Payload(set, rsvd, enabled, ip, prefix) ==
    <<set, rsvd + 128 * enabled>> \o ip \o <<prefix, 0>>

ZeroMAC == <<0, 0, 0, 0, 0, 0>>
MulticastMAC == <<1, 0, 94, 0, 0, 1>>
UnicastMAC == <<0, 26, 43, 60, 77, 94>>

\* per parameter: well-formed payloads that are accepted and that are
\* refused for a field, a payload one byte short and one byte long
SetPayloads(parameter) ==
    CASE parameter = "SetStatus" -> {<<1>>, <<2>>, <<4>>, <<>>, <<1, 0>>}
      [] parameter = "IP" -> {<<192, 168, 0, 20>>, <<10, 0, 0>>, <<10, 0, 0, 1, 1>>}
      [] parameter = "IPSrc" -> {<<1>>, <<2>>, <<3>>, <<18>>, <<>>, <<1, 1>>}
      [] parameter = "MAC" ->
             {UnicastMAC, ZeroMAC, MulticastMAC, <<2, 0, 0, 0, 0>>,
              UnicastMAC \o <<0>>}
      [] parameter = "SubnetMask" ->
             {<<255, 255, 0, 0>>, <<255, 0, 255, 0>>, <<255, 255, 255>>,
              <<255, 255, 255, 0, 0>>}
      [] parameter = "Gateway1" -> {<<10, 0, 0, 1>>, <<10, 0, 0>>, <<10, 0, 0, 1, 0>>}
      [] parameter \in {"Gateway1MAC", "IPv6StaticRouter1MAC"} ->
             {UnicastMAC, ZeroMAC, MulticastMAC, <<2, 0, 0, 0, 0>>,
              UnicastMAC \o <<0>>}
      [] parameter = "VLANId" ->
             {VlanPayload(100, 0, 1), VlanPayload(7, 0, 0), VlanPayload(7, 1, 0),
              VlanPayload(0, 0, 1), <<100>>, <<100, 128, 0>>}
      [] parameter = "IPFamilyEnables" -> {<<2>>, <<0>>, <<>>, <<2, 0>>}
      [] parameter = "IPv6StaticAddresses" ->
             {Static6Payload(0, 0, 1, StaticAddr6(9), 64),
              Static6Payload(0, 0, 0, StaticAddr6(9), 64),
              Static6Payload(0, 1, 1, StaticAddr6(9), 64),
              SubSeq(Static6Payload(0, 0, 1, StaticAddr6(9), 64), 1, 19),
              Static6Payload(0, 0, 1, StaticAddr6(9), 64) \o <<0>>}
      [] parameter = "IPv6RouterControl" -> {<<1>>, <<2>>, <<>>, <<1, 0>>}
      [] parameter \in {"IPv6StaticRouter1IP",
                        "IPv6StaticRouter1PrefixValue"} ->
             {StaticAddr6(1), SubSeq(StaticAddr6(1), 1, 15),
              StaticAddr6(1) \o <<0>>}
      [] parameter = "IPv6StaticRouter1PrefixLength" ->
             {<<0>>, <<64>>, <<>>, <<0, 0>>}
      [] OTHER -> {<<>>, <<1>>}

\* the parameters of the requests: the writable ones, two that are
\* read-only and one that setLan has no case for
SetParams == {"SetStatus"} \cup IfaceParams \cup
             {"VLANId", "AuthSupport", "IPv6Status", "Gateway2"}

\* every payload on the valid channel, and one request with a reserved bit
\* and one on a channel that is not valid
SetRequests ==
    UNION {{SetLanReq(c, 0, parameter, data) :
               c \in NetChannels, data \in SetPayloads(parameter)} :
           parameter \in SetParams} \cup
    {SetLanReq(1, 1, "IP", <<192, 168, 0, 20>>),
     SetLanReq(0, 0, "VLANId", VlanPayload(7, 0, 0))}

\* the configurations of the interface a request meets
InitFulls ==
    {InitChan(f, n, FALSE, g4, g6, vlan) @@
         [MACAddress |-> ether_ntoa(InitialMAC)] :
        f \in {i \in InitIfaces : /\ i.DefaultGateway = <<>>
                                  /\ \A o \in i.ipObjs : o.origin = "Static"},
        n \in {0, 1}, g4 \in Gateways4, g6 \in Gateways6, vlan \in {0, 200}}

\* the maps of a daemon that has stored nothing, and of one that holds the
\* latch of the channel and the id of a disabled VLAN
InitMaps ==
    {[status |-> EmptyMap, vlans |-> EmptyMap],
     [status |-> MapPut(EmptyMap, 1, InProgress), vlans |-> MapPut(EmptyMap, 1, 7)]}

\* a daemon with the maps m on an interface in the configuration full
InitFull(full, m) ==
    /\ setStatus = m.status
    /\ lastDisabledVlan = m.vlans
    /\ solProgress = [c \in Channels |-> 0]
    /\ DHCPEnabled = [c \in Channels |->
          IF c \in NetChannels THEN full.DHCPEnabled ELSE IdleIface.DHCPEnabled]
    /\ ipObjs = [c \in Channels |->
          IF c \in NetChannels THEN full.ipObjs ELSE IdleIface.ipObjs]
    /\ DefaultGateway = [c \in Channels |->
          IF c \in NetChannels THEN full.DefaultGateway
          ELSE IdleIface.DefaultGateway]
    /\ MACAddress = [c \in Channels |-> full.MACAddress]
    /\ logicalPath = [c \in Channels |->
          IF c \in NetChannels THEN full.logicalPath ELSE 0]
    /\ neighObjs = [c \in Channels |->
          IF c \in NetChannels THEN full.neighObjs ELSE {}]
    /\ DefaultGateway6 = [c \in Channels |->
          IF c \in NetChannels THEN full.DefaultGateway6 ELSE <<>>]
    /\ rsp = NoRsp
    /\ latchBefore = -2
    /\ inflight = [cl \in Clients |-> NoReq]
    /\ results = [cl \in Clients |-> NoRsp]
    /\ raced = FALSE

InitSet ==
    \E full \in InitFulls, m \in InitMaps, r \in SetRequests :
        /\ InitFull(full, m)
        /\ req = [r EXCEPT !.cmd = "request"]

\* the handler runs on the request that has arrived
HandleSetLan ==
    /\ req.cmd = "request"
    /\ req' = [req EXCEPT !.cmd = "setLan"]
    /\ latchBefore' = -2
    /\ UNCHANGED clients
    /\ LET channel == req.channel
           full == IF isValidChannel(channel) THEN Full(channel)
                   ELSE IdleIface
       IN  \E o \in setLan(setStatus, lastDisabledVlan, full, channel,
                            req.reserved, req.parameter, req.data) :
             /\ IF isValidChannel(channel) THEN WriteFull(channel, o.iface)
                ELSE UNCHANGED backend
             /\ IF o.cc = "abort"
                  THEN /\ rsp' = Reply("no-response", <<>>)
                       /\ setStatus' = EmptyMap
                       /\ lastDisabledVlan' = EmptyMap
                  ELSE /\ rsp' = Reply(o.cc, <<>>)
                       /\ setStatus' = o.status
                       /\ lastDisabledVlan' = o.vlans

NextSet == HandleSetLan

SpecSet == InitSet /\ [][NextSet]_vars

(***************************************************************************)
(* Sequences of Set IPv6StaticAddresses on interfaces that start with no,  *)
(* a few and all but one or all of the static addresses the selectors      *)
(* stand for.                                                              *)
(***************************************************************************)
\* the first selector, the last selector of the range Get reads and the
\* largest a byte holds
SlotSelectors == {0, MAX_IPV6_STATIC_ADDRESSES - 1, 255}

\* an address the interface may hold already and one it never starts with
SlotAddrs == {StaticAddr6(2), StaticAddr6(200)}

IPv6StaticAddressesPayloads ==
    {Static6Payload(set, 0, enabled, ip, 64) :
        set \in SlotSelectors, enabled \in {0, 1}, ip \in SlotAddrs}

SetLan_IPv6StaticAddresses ==
    \E h \in Headers(NetChannels \cup {0}), data \in IPv6StaticAddressesPayloads :
      LET channel == h[1]
          reserved1 == h[2]
      IN  /\ req' = SetLanReq(channel, reserved1, "IPv6StaticAddresses", data)
          /\ latchBefore' = -2
          /\ UNCHANGED <<clients, lastDisabledVlan>>
          /\ IF SetLanRejected(channel, reserved1)
               THEN /\ rsp' = Reply(ccInvalidFieldRequest, <<>>)
                    /\ UNCHANGED <<setStatus, backend>>
               ELSE \E o \in setLanIPv6StaticAddresses(Chan(channel), data) :
                      /\ rsp' = Reply(o.cc, <<>>)
                      /\ WriteChan(channel, o.iface)
                      /\ UNCHANGED setStatus

SlotCounts ==
    {0, 1, MAX_IPV6_STATIC_ADDRESSES - 1, MAX_IPV6_STATIC_ADDRESSES}

\* the interface holds an address assigned by SLAAC next to the static ones
InitSlots ==
    \E n \in SlotCounts :
        InitOn(InitChan(IdleIface, n, TRUE, [gw |-> <<>>, neigh |-> {}],
                        [gw |-> <<>>, neigh |-> {}], 0))

NextSlots == SetLan_IPv6StaticAddresses

SpecSlots == InitSlots /\ [][NextSlots]_vars

(***************************************************************************)
(* reconfigureVLAN called directly, without fault and with one call that   *)
(* fails.                                                                  *)
(***************************************************************************)
\* the configurations of InitFulls, and one with everything the function
\* saves: the IPv4 address, two static IPv6 addresses next to one assigned
\* by SLAAC, the DHCP mode both and the neighbors of both gateways
StepChans ==
    InitFulls \cup
    {InitChan(f, 2, TRUE,
              [gw |-> addrToString(InitialGateway),
               neigh |-> {[ip |-> addrToString(InitialGateway),
                           mac |-> ether_ntoa(GatewayMAC)]}],
              g6, vlan) @@ [MACAddress |-> ether_ntoa(InitialMAC)] :
        f \in {i \in InitIfaces : /\ i.DefaultGateway = <<>>
                                  /\ getDHCPProperty(i.DHCPEnabled) = "both"
                                  /\ \E o \in i.ipObjs : o.origin = "Static"},
        g6 \in {g \in Gateways6 : g.gw # <<>>}, vlan \in {0, 200}}

\* an error deleteObjectIfExists swallows and one it raises again
FaultErrors == {errInternalFailure, errNotAllowed}

\* no fault, and a fault at each call of the run
FaultsOf(ch, vlan) ==
    {NoFault} \cup
    {[at |-> k, error |-> e] :
        k \in 1..Len(reconfigureVLANCalls(ch, vlan)), e \in FaultErrors}

Call_reconfigureVLAN ==
    /\ req.cmd = "vlan"
    /\ req' = [req EXCEPT !.cmd = "reconfigureVLAN"]
    /\ \E d \in DHCPConf :
         LET r == reconfigureVLANOn(Chan(req.channel), req.vlan, req.fault, d)
         IN  /\ WriteChan(req.channel, r.chan)
             /\ rsp' = [err |-> r.err, trace |-> r.trace, path |-> r.path]
    /\ UNCHANGED <<setStatus, lastDisabledVlan, latchBefore, clients>>

InitSteps ==
    \E full \in StepChans, c \in NetChannels, vlan \in {0, 100} :
        /\ InitFull(full, [status |-> EmptyMap, vlans |-> EmptyMap])
        /\ \E fault \in FaultsOf(full, vlan) :
             req = [cmd |-> "vlan", channel |-> c, vlan |-> vlan,
                    fault |-> fault]

NextSteps == Call_reconfigureVLAN

SpecSteps == InitSteps /\ [][NextSteps]_vars

(***************************************************************************)
(* The functions under the handlers called directly.  The initial state    *)
(* holds the arguments of one call and, where the function deletes an      *)
(* object, the reply of the Delete method.                                 *)
(***************************************************************************)
DeleteErrors ==
    {NoError, errUnknownObject, errInternalFailure, errNotAllowed, errNoReply}

\* an address object that no interface holds
GoneAddr ==
    [protocol |-> "IPv4", address |-> addrToString(<<10, 9, 9, 9>>),
     prefix |-> 8, origin |-> "Static"]

\* the path argument: empty, of the IPv4 address of the interface, of an
\* object that is not there
PathOf(ips, kind) ==
    CASE kind = "empty" -> {}
      [] kind = "ifaddr" -> getIfAddr4(ips)
      [] kind = "gone" -> {GoneAddr}

\* the Delete of an object that is there returns or fails; the Delete of
\* one that is not there replies UnknownObject or fails
CallInputs ==
    {[cmd |-> "path", channel |-> c, path |-> "empty", error |-> e] :
        c \in NetChannels, e \in DeleteErrors} \cup
    {[cmd |-> "path", channel |-> c, path |-> "ifaddr", error |-> e] :
        c \in NetChannels, e \in DeleteErrors \ {errUnknownObject}} \cup
    {[cmd |-> "path", channel |-> c, path |-> "gone", error |-> e] :
        c \in NetChannels, e \in DeleteErrors \ {NoError}} \cup
    {[cmd |-> "address", channel |-> c, address |-> a, prefix |-> q,
      error |-> e] :
        c \in NetChannels, a \in {{}, {<<192, 168, 0, 20>>}}, q \in {{}, {16}},
        e \in DeleteErrors} \cup
    {[cmd |-> "mac", channel |-> c, family |-> f, mac |-> m] :
        c \in NetChannels, f \in {"IPv4", "IPv6"},
        m \in {UnicastMAC, GatewayMAC}} \cup
    {[cmd |-> "params", channel |-> c] : c \in NetChannels}

Call_deleteObjectIfExists ==
    /\ req.cmd = "path"
    /\ req.path = "ifaddr" => getIfAddr4(ipObjs[req.channel]) # {}
    /\ req' = [req EXCEPT !.cmd = "deleteObjectIfExists"]
    /\ LET r == deleteObjectIfExistsOn(ipObjs[req.channel],
                      PathOf(ipObjs[req.channel], req.path), req.error)
       IN  /\ ipObjs' = [ipObjs EXCEPT ![req.channel] = r.val]
           /\ rsp' = [err |-> r.err, called |-> r.called]
    /\ UNCHANGED <<setStatus, lastDisabledVlan, DHCPEnabled, DefaultGateway,
                   MACAddress, logicalPath, neighObjs, DefaultGateway6, solProgress,
                   latchBefore, clients>>

Call_reconfigureIfAddr4 ==
    /\ req.cmd = "address"
    /\ req' = [req EXCEPT !.cmd = "reconfigureIfAddr4"]
    /\ \E r \in reconfigureIfAddr4On(ipObjs[req.channel], req.address,
                                     req.prefix, req.error) :
         /\ ipObjs' = [ipObjs EXCEPT ![req.channel] =
                         IF r.err = NoError THEN r.val ELSE @]
         /\ rsp' = [err |-> r.err]
    /\ UNCHANGED <<setStatus, lastDisabledVlan, DHCPEnabled, DefaultGateway,
                   MACAddress, logicalPath, neighObjs, DefaultGateway6, solProgress,
                   latchBefore, clients>>

Call_reconfigureGatewayMAC ==
    /\ req.cmd = "mac"
    /\ req' = [req EXCEPT !.cmd = "reconfigureGatewayMAC"]
    /\ LET r == reconfigureGatewayMAC(Chan(req.channel), req.family, req.mac)
       IN  /\ neighObjs' = [neighObjs EXCEPT ![req.channel] =
                               IF r.err = NoError THEN r.val ELSE @]
           /\ rsp' = [err |-> r.err]
    /\ UNCHANGED <<setStatus, lastDisabledVlan, DHCPEnabled, DefaultGateway,
                   MACAddress, logicalPath, ipObjs, DefaultGateway6, solProgress,
                   latchBefore, clients>>

Call_deconfigureChannel ==
    /\ req.cmd = "params"
    /\ req' = [req EXCEPT !.cmd = "deconfigureChannel"]
    /\ WriteChan(req.channel, deconfigureChannel(Chan(req.channel)))
    /\ rsp' = [err |-> NoError]
    /\ UNCHANGED <<setStatus, lastDisabledVlan, latchBefore, clients>>

InitCalls ==
    \E full \in InitFulls :
        /\ InitFull(full, [status |-> EmptyMap, vlans |-> EmptyMap])
        /\ req \in CallInputs

NextCalls ==
    \/ Call_deleteObjectIfExists
    \/ Call_reconfigureIfAddr4
    \/ Call_reconfigureGatewayMAC
    \/ Call_deconfigureChannel

SpecCalls == InitCalls /\ [][NextCalls]_vars

(***************************************************************************)
(* The validators called directly and through the handlers that use them:  *)
(* netmaskToPrefix on netmasks of every shape, isValidMACAddress on        *)
(* addresses with every first octet.                                       *)
(***************************************************************************)
\* the uint32_t whose bits from..to are set
RunOfOnes(from, to) == [i \in Bits |-> IF from <= i /\ i <= to THEN 1 ELSE 0]

\* every run of 1-bits, every run of 0-bits within 1-bits, and 0
NetmaskInputs ==
    {htobe32(RunOfOnes(a, b)) : a \in Bits, b \in Bits} \cup
    {htobe32(Not(RunOfOnes(a, b))) : a \in Bits, b \in Bits}

\* netmasks a Set SubnetMask request carries: contiguous, with a hole, not
\* left-aligned, all zero, all ones but the last bit
SubnetMaskPayloadsAny ==
    {<<255, 255, 0, 0>>, <<255, 0, 255, 0>>, <<0, 255, 255, 255>>,
     <<0, 0, 0, 0>>, <<255, 255, 255, 254>>, <<255, 255, 255, 253>>,
     <<0, 0, 0, 1>>}

\* every first octet; the other octets all zero or one of them set
MACInputs ==
    {<<a, 0, 0, 0, 0, 0>> : a \in 0..255} \cup
    {[i \in 1..6 |-> IF i = 1 THEN a ELSE IF i = k THEN 255 ELSE 0] :
        a \in 0..255, k \in {2, 6}}

MACPayloadsAny ==
    {<<0, 26, 43, 60, 77, 94>>, <<0, 0, 0, 0, 0, 0>>, <<1, 0, 0, 0, 0, 1>>,
     <<255, 255, 255, 255, 255, 255>>, <<3, 0, 0, 0, 0, 0>>,
     <<0, 0, 0, 0, 0, 1>>, <<254, 0, 0, 0, 0, 0>>}

\* the arguments of the calls, drawn by the initial state
ValidatorInputs ==
    {[cmd |-> "in_addr", netmask |-> n] : n \in NetmaskInputs} \cup
    {[cmd |-> "ether_addr", mac |-> m] : m \in MACInputs}

Call_netmaskToPrefixOn ==
    /\ req.cmd = "in_addr"
    /\ req' = [cmd |-> "netmaskToPrefixOn", netmask |-> req.netmask]
    /\ rsp' = netmaskToPrefix(req.netmask)
    /\ UNCHANGED <<setStatus, lastDisabledVlan, backend, latchBefore, clients>>

Call_isValidMACAddress ==
    /\ req.cmd = "ether_addr"
    /\ req' = [cmd |-> "isValidMACAddress", mac |-> req.mac]
    /\ rsp' = Ok(isValidMACAddress(req.mac))
    /\ UNCHANGED <<setStatus, lastDisabledVlan, backend, latchBefore, clients>>

SetLan_SubnetMaskAny == SetLanSubnetMaskOn(SubnetMaskPayloadsAny)

SetLan_MACAny == SetLanMACOn(MACPayloadsAny)

\* an interface with a static configuration and an address
InitValidators ==
    /\ setStatus = EmptyMap
    /\ lastDisabledVlan = EmptyMap
    /\ solProgress = [c \in Channels |-> 0]
    /\ \E f \in {i \in InitIfaces :
                  /\ getDHCPProperty(i.DHCPEnabled) = "none"
                  /\ \E o \in i.ipObjs : o.origin = "Static"
                  /\ i.DefaultGateway # <<>>} :
        /\ DHCPEnabled = [c \in Channels |-> f.DHCPEnabled]
        /\ ipObjs = [c \in Channels |->
              IF c \in NetChannels THEN f.ipObjs ELSE IdleIface.ipObjs]
        /\ DefaultGateway = [c \in Channels |->
              IF c \in NetChannels THEN f.DefaultGateway
              ELSE IdleIface.DefaultGateway]
        /\ MACAddress = [c \in Channels |-> f.MACAddress]
    /\ logicalPath = [c \in Channels |-> 0]
    /\ neighObjs = [c \in Channels |-> {}]
    /\ DefaultGateway6 = [c \in Channels |-> <<>>]
    /\ req \in ValidatorInputs
    /\ rsp = NoRsp
    /\ latchBefore = -2
    /\ inflight = [cl \in Clients |-> NoReq]
    /\ results = [cl \in Clients |-> NoRsp]
    /\ raced = FALSE

NextValidators ==
    \/ Call_netmaskToPrefixOn
    \/ Call_isValidMACAddress
    \/ SetLan_SubnetMaskAny
    \/ SetLan_MACAny

SpecValidators == InitValidators /\ [][NextValidators]_vars

(***************************************************************************)
(* Concurrent clients.  The daemon handles one request at a time: a        *)
(* handler invocation runs from its first statement to its return before   *)
(* the next request is taken, in any order of the requests in flight.      *)
(***************************************************************************)
IsLatchReq(r, channel) ==
    /\ r.cmd = "setLan"
    /\ r.parameter = "SetStatus"
    /\ r.channel = channel
    /\ r.reserved = 0
    /\ r.data = <<InProgress>>

Issue(cl) ==
    \E channel \in ChannelInputs, data \in SetStatusPayloads :
        /\ inflight[cl] = NoReq
        /\ results[cl] = NoRsp
        /\ inflight' = [inflight EXCEPT ![cl] =
                          SetLanReq(channel, 0, "SetStatus", data)]
        /\ raced' = (/\ isValidChannel(channel)
                     /\ data = <<InProgress>>
                     /\ getSetStatus(setStatus, channel) = Complete
                     /\ \E other \in Clients \ {cl} :
                            IsLatchReq(inflight[other], channel))
        /\ UNCHANGED <<setStatus, lastDisabledVlan, backend, req, rsp,
                       latchBefore, results>>

Dispatch(cl) ==
    /\ inflight[cl] # NoReq
    /\ LET r == inflight[cl]
           o == IF SetLanRejected(r.channel, r.reserved)
                  THEN [cc |-> ccInvalidFieldRequest, map |-> setStatus]
                  ELSE setLanSetStatus(setStatus, r.channel, r.data)
       IN  /\ setStatus' = o.map
           /\ results' = [results EXCEPT ![cl] = [cc |-> o.cc, data |-> r.data,
                                                  channel |-> r.channel]]
    /\ inflight' = [inflight EXCEPT ![cl] = NoReq]
    /\ UNCHANGED <<lastDisabledVlan, backend, req, rsp, latchBefore, raced>>

Collect(cl) ==
    /\ results[cl] # NoRsp
    /\ results' = [results EXCEPT ![cl] = NoRsp]
    /\ raced' = FALSE
    /\ UNCHANGED <<setStatus, lastDisabledVlan, backend, req, rsp, latchBefore,
                   inflight>>

IssueRequest == \E cl \in Clients : Issue(cl)
HandleRequest == \E cl \in Clients : Dispatch(cl)
CollectResponse == \E cl \in Clients : Collect(cl)

NextConc ==
    \/ IssueRequest
    \/ HandleRequest
    \/ CollectResponse

SpecConc == Init /\ [][NextConc]_vars

(***************************************************************************)
(* Properties of the set-in-progress latch (Spec).                         *)
(***************************************************************************)
\* the last request was a well-formed Set SetStatus with this flag value
LastSetStatus(flag) ==
    /\ req.cmd = "setLan"
    /\ req.parameter = "SetStatus"
    /\ ~SetLanRejected(req.channel, req.reserved)
    /\ req.data = <<flag>>

\* C1: on every channel, Set SetStatus=InProgress while the stored status is
\* Complete or was never set returns success and stores InProgress; while
\* it is InProgress it returns parameter-locked and the status stays
\* InProgress.
C1_InProgressLatch ==
    LastSetStatus(InProgress) =>
        /\ latchBefore \in {-1, Complete} =>
              /\ rsp.cc = ccSuccess
              /\ Stored(setStatus, req.channel) = InProgress
        /\ latchBefore = InProgress =>
              /\ rsp.cc = ccParamSetLocked
              /\ Stored(setStatus, req.channel) = InProgress

C1_Witness ==
    /\ LastSetStatus(InProgress)
    /\ latchBefore = InProgress
    /\ rsp.cc = ccParamSetLocked

\* C2: Set SetStatus=Commit on a channel whose stored status is Complete, or
\* that was never set, returns invalid-field-in-request and the status a Get
\* reads stays Complete.
C2_CommitWhileComplete ==
    (LastSetStatus(Commit) /\ latchBefore \in {-1, Complete}) =>
        /\ rsp.cc = ccInvalidFieldRequest
        /\ getLanSetStatus(setStatus, req.channel) = <<Complete>>

C2_Witness ==
    /\ LastSetStatus(Commit)
    /\ latchBefore = -1
    /\ rsp.cc = ccInvalidFieldRequest

\* C3: Set SetStatus=Commit while the stored status is InProgress returns
\* success and the status stays InProgress; the stored status of every
\* channel is always Complete or InProgress, never Commit; a request with
\* flag value 3 leaves it unchanged.
C3_NeverCommit ==
    /\ \A c \in DOMAIN setStatus : setStatus[c] \in {Complete, InProgress}
    /\ (LastSetStatus(Commit) /\ latchBefore = InProgress) =>
          /\ rsp.cc = ccSuccess
          /\ Stored(setStatus, req.channel) = InProgress
    /\ LastSetStatus(3) => Stored(setStatus, req.channel) = latchBefore

C3_Witness ==
    /\ LastSetStatus(Commit)
    /\ latchBefore = InProgress
    /\ rsp.cc = ccSuccess
    /\ Stored(setStatus, req.channel) = InProgress

\* C4: Set SetStatus=Complete succeeds from every stored status and stores
\* Complete, and the latch can then be taken again: a Set
\* SetStatus=InProgress on the same channel in the state it leaves succeeds.
C4_Releasable ==
    LastSetStatus(Complete) =>
        /\ rsp.cc = ccSuccess
        /\ Stored(setStatus, req.channel) = Complete
        /\ LET again == setLanSetStatus(setStatus, req.channel, <<InProgress>>)
           IN  /\ again.cc = ccSuccess
               /\ again.map[req.channel] = InProgress

C4_Witness ==
    /\ LastSetStatus(Complete)
    /\ latchBefore = InProgress
    /\ rsp.cc = ccSuccess
    /\ Stored(setStatus, req.channel) = Complete

(***************************************************************************)
(* Properties of concurrent requests (SpecConc).                           *)
(***************************************************************************)
\* C5: when two Set SetStatus=InProgress requests for one channel were in
\* flight together while its stored status was Complete, then in whichever
\* order they were handled exactly one returned success and the other
\* parameter-locked.
C5_OneWinner ==
    (raced /\ \A cl \in Clients : results[cl] # NoRsp) =>
        /\ Cardinality({cl \in Clients : results[cl].cc = ccSuccess}) = 1
        /\ Cardinality({cl \in Clients : results[cl].cc = ccParamSetLocked}) =
              Cardinality(Clients) - 1

C5_Witness ==
    /\ raced
    /\ results["c1"] # NoRsp /\ results["c1"].cc = ccParamSetLocked
    /\ results["c2"] # NoRsp /\ results["c2"].cc = ccSuccess

(***************************************************************************)
(* Properties of the DHCP reconciliation (SpecDHCP).                       *)
(***************************************************************************)
\* the mode the last call left on the interface it was given
ModeAfter == getDHCPProperty(DHCPEnabled[req.channel])

\* C7: setDHCPv4Property writes (current=v6, requested=v4) -> both;
\* (none, v4) -> v4; (both, none) -> v6; (v4, none) -> none.
C7_TableV4 ==
    req.cmd = "setDHCPv4Property" =>
        /\ (req.currentDhcp = "v6" /\ req.requestedDhcp = "v4") => ModeAfter = "both"
        /\ (req.currentDhcp = "none" /\ req.requestedDhcp = "v4") => ModeAfter = "v4"
        /\ (req.currentDhcp = "both" /\ req.requestedDhcp = "none") => ModeAfter = "v6"
        /\ (req.currentDhcp = "v4" /\ req.requestedDhcp = "none") => ModeAfter = "none"

C7_Witness ==
    /\ req.cmd = "setDHCPv4Property"
    /\ req.currentDhcp = "both"
    /\ req.requestedDhcp = "none"
    /\ ModeAfter = "v6"

\* C8: setDHCPv6Property in default mode writes (current=v4, requested=v6)
\* -> both; (none, v6) -> v6; (both, none) -> v4; (v6, none) -> none; with
\* defaultMode=false it writes the requested value for every current mode.
C8_TableV6 ==
    req.cmd = "setDHCPv6Property" =>
        /\ req.defaultMode =>
            /\ (req.currentDhcp = "v4" /\ req.requestedDhcp = "v6") => ModeAfter = "both"
            /\ (req.currentDhcp = "none" /\ req.requestedDhcp = "v6") => ModeAfter = "v6"
            /\ (req.currentDhcp = "both" /\ req.requestedDhcp = "none") => ModeAfter = "v4"
            /\ (req.currentDhcp = "v6" /\ req.requestedDhcp = "none") => ModeAfter = "none"
        /\ ~req.defaultMode => ModeAfter = req.requestedDhcp

C8_Witness ==
    /\ req.cmd = "setDHCPv6Property"
    /\ ~req.defaultMode
    /\ req.currentDhcp = "v4"
    /\ req.requestedDhcp = "v6"
    /\ ModeAfter = "v6"

\* the DHCP bit of each family in a combined mode
v4Bit(mode) == mode \in {"v4", "both"}
v6Bit(mode) == mode \in {"v6", "both"}

\* C9: for every current mode, setDHCPv4Property with requested v4 or none
\* leaves the DHCPv6 component of the mode unchanged, and setDHCPv6Property
\* in default mode with requested v6 or none leaves the DHCPv4 component
\* unchanged.
C9_OtherFamilyKept ==
    /\ (req.cmd = "setDHCPv4Property" /\ req.requestedDhcp \in {"v4", "none"}) =>
          v6Bit(ModeAfter) = v6Bit(req.currentDhcp)
    /\ (req.cmd = "setDHCPv6Property" /\ req.defaultMode
          /\ req.requestedDhcp \in {"v6", "none"}) =>
          v4Bit(ModeAfter) = v4Bit(req.currentDhcp)

(***************************************************************************)
(* Properties of the netmask codec (SpecMask).                             *)
(***************************************************************************)
\* C10: netmaskToPrefix(prefixToNetmask(p)) = p for every p in 0..32;
\* prefixToNetmask(0) is the all-zero netmask; prefixToNetmask(p) fails for
\* p > 32.
C10_RoundTrip ==
    /\ req.cmd = "netmaskToPrefix" => (rsp.err = "" /\ rsp.val = req.prefix)
    /\ req.cmd = "prefixToNetmask" =>
          /\ req.prefix \in 0..32 => rsp.err = ""
          /\ req.prefix = 0 => rsp.val = <<0, 0, 0, 0>>
          /\ req.prefix > 32 => rsp.err = "InternalFailure"

C10_Witness ==
    /\ req.cmd = "netmaskToPrefix"
    /\ req.prefix = 0
    /\ req.netmask = <<0, 0, 0, 0>>
    /\ rsp.val = 0

(***************************************************************************)
(* Properties of parameter writes during a set-in-progress session         *)
(* (SpecNet).                                                              *)
(***************************************************************************)
\* the last request was a Set of the parameter that returned success
Applied(parameter) ==
    /\ req.cmd = "setLan"
    /\ req.parameter = parameter
    /\ rsp.cc = ccSuccess

\* what a Get of the parameter on the channel of the last request returns
Observed(parameter) ==
    getLanParam(setStatus, Iface(req.channel), req.channel, parameter).val

C6_Observed ==
    /\ Applied("IP") => Observed("IP") = req.data
    /\ Applied("SubnetMask") => Observed("SubnetMask") = req.data
    /\ Applied("Gateway1") => Observed("Gateway1") = req.data
    /\ Applied("MAC") => Observed("MAC") = req.data
    /\ Applied("IPSrc") =>
          Observed("IPSrc") =
              <<IF req.data[1] = IPSrcDHCP THEN IPSrcDHCP ELSE IPSrcStatic>>

C6_StatusStep ==
    (req'.cmd = "setLan" /\ req'.parameter = "SetStatus") => UNCHANGED backend

LeftAligned(x) == \E p \in 0..defaultPrefix : x = RunOfOnes(1, p)

\* the number of trailing zero bits
TrailingZeros(x) ==
    Cardinality({i \in Bits : \A j \in Bits : j >= i => x[j] = 0})

\* a well-formed Set of the parameter was the last request
LastSet(parameter, len) ==
    /\ req.cmd = "setLan"
    /\ req.parameter = parameter
    /\ ~SetLanRejected(req.channel, req.reserved)
    /\ Len(req.data) = len

C11_Codec ==
    req.cmd = "netmaskToPrefixOn" =>
        LET x == be32toh(req.netmask)
        IN  /\ ~LeftAligned(x) => rsp.err # ""
            /\ LeftAligned(x) =>
                  /\ rsp.err = ""
                  /\ rsp.val = IF IsZero(x) THEN 0
                               ELSE defaultPrefix - TrailingZeros(x)

C11_RejectedStep ==
    (LastSet("SubnetMask", 4)' /\ ~LeftAligned(be32toh(req'.data))) =>
        /\ rsp'.cc # ccSuccess
        /\ UNCHANGED ipObjs

\* C11: netmaskToPrefix fails on every netmask that is not a left-aligned
\* contiguous run of 1-bits and on each of the others returns 32 minus the
\* number of trailing zero bits, 0 for the all-zero netmask; a Set
\* SubnetMask request with a netmask it fails on deletes and creates no
\* address.
C11_NetmaskValidated == []C11_Codec /\ [][C11_RejectedStep]_vars

C11_Witness ==
    /\ LastSet("SubnetMask", 4)
    /\ req.data = <<255, 255, 255, 253>>
    /\ rsp.cc = ccUnspecifiedError
    /\ getIfAddr4(ipObjs[req.channel]) # {}

\* the first octet has its least significant bit set
Multicast(mac) == \E k \in 0..127 : mac[1] = 2 * k + 1

C12_Validator ==
    req.cmd = "isValidMACAddress" =>
        rsp.val = ~(req.mac = [i \in 1..6 |-> 0] \/ Multicast(req.mac))

C12_RejectedStep ==
    (LastSet("MAC", 6)' /\ (req'.data = [i \in 1..6 |-> 0] \/ Multicast(req'.data)))
        => /\ rsp'.cc = ccInvalidFieldRequest
           /\ UNCHANGED backend

\* C12: isValidMACAddress is false exactly for the all-zero address and for
\* the addresses whose first octet has its least significant bit set; a Set
\* MAC request with such an address returns invalid-field-in-request and
\* does not write the MACAddress property.
C12_MACValidated == []C12_Validator /\ [][C12_RejectedStep]_vars

C12_Witness ==
    /\ LastSet("MAC", 6)
    /\ req.data = <<0, 0, 0, 0, 0, 0>>
    /\ rsp.cc = ccInvalidFieldRequest
    /\ getMACProperty(MACAddress[req.channel]) = InitialMAC

(***************************************************************************)
(* Properties of the VLAN id (SpecVlan).                                   *)
(***************************************************************************)
\* the fields of a Set VLANId payload
VlanIdOf(data) == (data[1] + 256 * data[2]) % 4096
VlanReservedOf(data) == ((data[1] + 256 * data[2]) \div 4096) % 8
VlanEnableOf(data) == (data[1] + 256 * data[2]) \div 32768

\* what a Get VLANId on the channel returns
ObservedVlan(c) == getLanVLANId(lastDisabledVlan, Chan(c), c).data

\* the payload is one the handler must refuse
RefusedVlan(data) ==
    \/ VlanReservedOf(data) # 0
    \/ VlanEnableOf(data) = 1 /\ VlanIdOf(data) \in {0, 4095}

C13_Step ==
    (LastSet("VLANId", 2)' /\ RefusedVlan(req'.data)) =>
        /\ rsp'.cc = ccInvalidFieldRequest
        /\ UNCHANGED <<backend, lastDisabledVlan>>

\* C13: Set VLANId with the enable bit and id 0 or 0xFFF, or with a
\* reserved bit set, returns invalid-field-in-request, deletes and creates
\* no object and leaves lastDisabledVlan unchanged.
C13_RefusedVlanNoEffect == [][C13_Step]_vars

C13_Witness ==
    /\ LastSet("VLANId", 2)
    /\ VlanEnableOf(req.data) = 1
    /\ VlanIdOf(req.data) = 4095
    /\ rsp.cc = ccInvalidFieldRequest
    /\ logicalPath[req.channel] = 100
    /\ Stored(lastDisabledVlan, req.channel) = 7

C14_Disabled ==
    (LastSet("VLANId", 2) /\ rsp.cc = ccSuccess /\ VlanEnableOf(req.data) = 0) =>
        /\ logicalPath[req.channel] = 0
        /\ ObservedVlan(req.channel) =
              <<current_revision>> \o Pack16(VlanIdOf(req.data))

C14_Step ==
    \A c \in Channels :
        /\ ~(req'.cmd = "setLan" /\ req'.parameter = "VLANId" /\ req'.channel = c)
              => ObservedVlan(c)' = ObservedVlan(c)
        /\ (/\ req'.cmd = "getLan" /\ req'.parameter = "VLANId"
            /\ req'.channel = c /\ req'.reserved = 0)
              => rsp'.data = ObservedVlan(c)

StaticPairs6(ips) ==
    {<<stringToAddr6(o.address), o.prefix>> :
        o \in {x \in ips : x.protocol = "IPv6" /\ x.origin = "Static"}}

\* the IPv4 (address, prefix) pairs among address objects
Pairs4(ips) ==
    {<<stringToAddr(o.address), o.prefix>> : o \in {x \in ips : x.protocol = "IPv4"}}

\* the step is a Set VLANId that succeeded, so that reconfigureVLAN returned
ReconfiguredVLAN == LastSet("VLANId", 2)' /\ rsp'.cc = ccSuccess

\* the interface of channel c after the step
ChanNext(c) ==
    [DHCPEnabled |-> DHCPEnabled'[c], ipObjs |-> ipObjs'[c],
     neighObjs |-> neighObjs'[c], logicalPath |-> logicalPath'[c],
     DefaultGateway |-> DefaultGateway'[c],
     DefaultGateway6 |-> DefaultGateway6'[c]]

C16_Step ==
    \A c \in Channels :
        (ReconfiguredVLAN /\ req'.channel = c /\ VlanEnableOf(req'.data) = 1) =>
            /\ logicalPath'[c] = VlanIdOf(req'.data)
            /\ Pairs4(getIfAddr4(ipObjs[c])) \subseteq Pairs4(ipObjs'[c])
            /\ getDHCPProperty(DHCPEnabled'[c]) = getDHCPProperty(DHCPEnabled[c])
            /\ \A family \in {"IPv4", "IPv6"} :
                  findGatewayNeighbor(Chan(c), family) \subseteq
                      findGatewayNeighbor(ChanNext(c), family)

\* C16: after a successful reconfigureVLAN(newId), newId # 0, the logical
\* object is the VLAN newId and the IPv4 address and prefix, the DHCP mode
\* and the gateway neighbor of each family that the old logical object had
\* are on it.
C16_Restored == [][C16_Step]_vars

C16_Witness ==
    /\ LastSet("VLANId", 2)
    /\ rsp.cc = ccSuccess
    /\ logicalPath[req.channel] = 100
    /\ Pairs4(ipObjs[req.channel]) = {<<InitialIP, 24>>}
    /\ Cardinality(StaticPairs6(ipObjs[req.channel])) = 2
    /\ getDHCPProperty(DHCPEnabled[req.channel]) = "both"
    /\ findGatewayNeighbor(Chan(req.channel), "IPv4") =
          {[ip |-> InitialGateway, mac |-> GatewayMAC]}
    /\ findGatewayNeighbor(Chan(req.channel), "IPv6") =
          {[ip |-> InitialGateway6, mac |-> GatewayMAC6]}

C17_Step ==
    ReconfiguredVLAN =>
        StaticPairs6(ipObjs'[req'.channel]) = StaticPairs6(ipObjs[req'.channel])

\* C17: the set of Static-origin IPv6 (address, prefix) pairs on the logical
\* interface after a successful reconfigureVLAN equals the set before it,
\* for every number of static addresses.
C17_AllStaticRestored == [][C17_Step]_vars

(***************************************************************************)
(* Properties of Get (SpecGet).                                            *)
(***************************************************************************)
C18_Reply ==
    (req.cmd = "getLan" /\ req.revOnly) =>
        /\ rsp.cc = ccSuccess
        /\ rsp.data = <<current_revision>>
        /\ ~rsp.queried

C18_Step ==
    (req'.cmd = "getLan" /\ req'.revOnly) =>
        UNCHANGED <<setStatus, lastDisabledVlan, backend>>

\* C18: Get with revOnly returns success and the revision byte 0x11 alone,
\* for every parameter, set selector and block selector, without a call to
\* the network service and without a change of state.
C18_RevOnly == []C18_Reply /\ [][C18_Step]_vars

C18_Witness ==
    /\ req.cmd = "getLan" /\ req.revOnly
    /\ req.parameter = "VLANId"
    /\ req.channel = 0 /\ req.reserved = 1
    /\ req.set = 255 /\ req.block = 1
    /\ rsp.data = <<current_revision>>
    /\ lastDisabledVlan = EmptyMap
    /\ solProgress = [c \in Channels |-> 0]

\* the last request was a well-formed Get IPv6StaticAddresses
LastGetStatic6 ==
    /\ req.cmd = "getLan" /\ ~req.revOnly
    /\ req.parameter = "IPv6StaticAddresses"
    /\ req.reserved = 0 /\ isValidChannel(req.channel)

\* C19: Get IPv6StaticAddresses with a set selector at or above
\* MAX_IPV6_STATIC_ADDRESSES returns parameter-out-of-range without a call
\* to the network service; with a selector below it and no static address
\* at that slot it returns success with the enabled bit clear, the zero
\* address and the status Disabled.
C19_SlotBound ==
    LastGetStatic6 =>
        /\ req.set >= MAX_IPV6_STATIC_ADDRESSES =>
              /\ rsp.cc = ccParmOutOfRange
              /\ ~rsp.queried
        /\ (/\ req.set < MAX_IPV6_STATIC_ADDRESSES
            /\ Cardinality(StaticPairs6(ipObjs[req.channel])) <= req.set) =>
              /\ rsp.cc = ccSuccess
              /\ rsp.data[2] = req.set
              /\ rsp.data[3] \div 128 = 0
              /\ SubSeq(rsp.data, 4, 19) = [i \in 1..16 |-> 0]
              /\ rsp.data[21] = IPv6AddressStatusDisabled

C19_Witness ==
    /\ LastGetStatic6
    /\ req.set = MAX_IPV6_STATIC_ADDRESSES
    /\ Cardinality(StaticPairs6(ipObjs[req.channel])) =
          MAX_IPV6_STATIC_ADDRESSES + 1
    /\ rsp.cc = ccParmOutOfRange

(***************************************************************************)
(* Properties of the DHCPv4 test of the address writes (SpecNet).          *)
(***************************************************************************)
\* the parameters that are refused while DHCPv4 is active
AddressParams == {"IP", "SubnetMask", "Gateway1"}

\* the step handles a Set of one of them with a valid channel
AddressWrite ==
    /\ req'.cmd = "setLan"
    /\ req'.parameter \in AddressParams
    /\ ~SetLanRejected(req'.channel, req'.reserved)

C20_Step ==
    AddressWrite =>
        LET mode == getDHCPProperty(DHCPEnabled[req'.channel])
        IN  /\ mode \in {"v4", "both"} =>
                  /\ rsp'.cc = ccCommandNotAvailable
                  /\ UNCHANGED backend
            /\ mode \in {"none", "v6"} => rsp'.cc # ccCommandNotAvailable

\* C20: while the DHCP mode of the interface is v4 or both, Set IP, Set
\* SubnetMask and Set Gateway1 return command-not-currently-available and
\* change nothing; while it is none or v6 they do not return it.
C20_RefusedUnderDHCPv4 == [][C20_Step]_vars

C20_Witness ==
    /\ req.cmd = "setLan" /\ req.parameter = "Gateway1"
    /\ req.data = <<10, 0, 0, 1>>
    /\ rsp.cc = ccCommandNotAvailable
    /\ getDHCPProperty(DHCPEnabled[req.channel]) = "both"
    /\ getLanGateway1(Iface(req.channel)).val # req.data

(***************************************************************************)
(* Set with a payload of the wrong length                                  *)
(***************************************************************************)
\* the number of payload bytes each case of setLan unpacks
FixedSize(parameter) ==
    CASE parameter \in {"SetStatus", "IPSrc", "IPFamilyEnables",
                        "IPv6RouterControl",
                        "IPv6StaticRouter1PrefixLength"} -> 1
      [] parameter = "VLANId" -> 2
      [] parameter \in {"IP", "SubnetMask", "Gateway1"} -> 4
      [] parameter \in {"MAC", "Gateway1MAC", "IPv6StaticRouter1MAC"} -> 6
      [] parameter \in {"IPv6StaticRouter1IP",
                        "IPv6StaticRouter1PrefixValue"} -> 16
      [] parameter = "IPv6StaticAddresses" -> 20

WritableParams == {"SetStatus", "VLANId"} \cup IfaceParams

\* the cases that test the DHCP mode before they unpack the payload
DHCPGuardedParams == {"IP", "SubnetMask", "Gateway1"}

\* the handler has answered a Set of a writable parameter whose payload
\* has not the size the case unpacks
WrongLengthSet ==
    /\ req.cmd = "request" /\ req'.cmd = "setLan"
    /\ ~SetLanRejected(req.channel, req.reserved)
    /\ req.parameter \in WritableParams
    /\ Len(req.data) # FixedSize(req.parameter)

C21_OrigStep == WrongLengthSet => rsp'.cc = ccReqDataLenInvalid

C21_WrongLengthAlwaysLengthInvalid == [][C21_OrigStep]_vars

C21_Step ==
    WrongLengthSet =>
        IF /\ req.parameter \in DHCPGuardedParams
           /\ getDHCPProperty(DHCPEnabled[req.channel]) \in {"v4", "both"}
          THEN rsp'.cc = ccCommandNotAvailable /\ UNCHANGED backend
          ELSE rsp'.cc = ccReqDataLenInvalid /\ UNCHANGED backend

\* C21: a Set of a writable fixed-size parameter with a payload of the wrong
\* length, on a valid channel and with the reserved bits clear, returns
\* request-data-length-invalid in every state of the backend, except Set IP,
\* Set SubnetMask and Set Gateway1 while the DHCP mode is v4 or both, which
\* return command-not-currently-available; no other code is returned.
C21_WrongLength == [][C21_Step]_vars

C21_Witness ==
    /\ req.cmd = "setLan" /\ req.parameter = "IPv6StaticRouter1PrefixValue"
    /\ Len(req.data) = 17
    /\ rsp.cc = ccReqDataLenInvalid
    /\ getDHCPProperty(DHCPEnabled[req.channel]) = "both"

(***************************************************************************)
(* Set answered with a protocol-level completion code                      *)
(***************************************************************************)
ProtocolCodes ==
    {ccReqDataLenInvalid, ccInvalidFieldRequest, ccParamNotSupported,
     ccParamReadOnly, ccCommandNotAvailable, ccParamSetLocked}

C22_Step ==
    (req.cmd = "request" /\ req'.cmd = "setLan" /\ rsp'.cc \in ProtocolCodes) =>
        /\ UNCHANGED backend
        /\ \A c \in Channels :
             /\ getSetStatus(setStatus', c) = getSetStatus(setStatus, c)
             /\ Stored(lastDisabledVlan', c) = Stored(lastDisabledVlan, c)

\* C22: a Set answered with request-data-length-invalid, invalid-field-in-
\* request, parameter-not-supported, parameter-read-only, command-not-
\* currently-available or parameter-locked leaves the addresses, neighbors,
\* VLAN, DHCP mode, gateways and MAC of every interface, the SetStatus that
\* getSetStatus reads for every channel and the stored lastDisabledVlan of
\* every channel as they were.
C22_RefusedSetHasNoEffect == [][C22_Step]_vars

C22_Witness ==
    /\ req.cmd = "setLan" /\ req.parameter = "VLANId"
    /\ req.data = VlanPayload(7, 1, 0)
    /\ rsp.cc = ccInvalidFieldRequest
    /\ Stored(lastDisabledVlan, req.channel) = -1
    /\ logicalPath[req.channel] = 200

(***************************************************************************)
(* deleteObjectIfExists and the errors of the Delete method                *)
(***************************************************************************)
SwallowedErrors == {errUnknownObject, errInternalFailure}

C23_Step ==
    (req.cmd = "path" /\ req'.cmd = "deleteObjectIfExists") =>
        /\ req.path = "empty" =>
              ~rsp'.called /\ rsp'.err = NoError /\ UNCHANGED backend
        /\ req.path # "empty" =>
              /\ rsp'.called
              /\ req.error \in SwallowedErrors \cup {NoError} =>
                    rsp'.err = NoError
              /\ req.error \notin SwallowedErrors \cup {NoError} =>
                    rsp'.err = req.error /\ UNCHANGED backend

\* C23: deleteObjectIfExists calls nothing and changes nothing for the
\* empty path; for any other path it calls Delete, returns normally when
\* the reply is UnknownObject or InternalFailure as when Delete returned,
\* and raises every other error again.
C23_DeleteSwallowsTwoErrors == [][C23_Step]_vars

C23_Witness ==
    /\ req.cmd = "deleteObjectIfExists" /\ req.path = "ifaddr"
    /\ req.error = errInternalFailure
    /\ rsp.err = NoError /\ rsp.called
    /\ getIfAddr4(ipObjs[req.channel]) # {}

(***************************************************************************)
(* reconfigureIfAddr4 when the Delete of the current address fails         *)
(***************************************************************************)
\* reconfigureIfAddr4 has run on an interface that had an IPv4 address
ReconfiguredExisting ==
    /\ req.cmd = "address" /\ req'.cmd = "reconfigureIfAddr4"
    /\ getIfAddr4(ipObjs[req.channel]) # {}

\* the address object the call asks the interface to create
RequestedAddr4(channel, address, prefix) ==
    LET old == CHOOSE o \in getIfAddr4(ipObjs[channel]) : TRUE
    IN  [protocol |-> "IPv4",
         address |-> IF address = {} THEN old.address
                     ELSE addrToString(CHOOSE a \in address : TRUE),
         prefix |-> IF prefix = {} THEN old.prefix
                    ELSE CHOOSE q \in prefix : TRUE,
         origin |-> "Static"]

C24_OrigStep ==
    (ReconfiguredExisting /\ req.error \notin {NoError, errUnknownObject}) =>
        rsp'.err = req.error /\ UNCHANGED backend

C24_Step ==
    ReconfiguredExisting =>
        IF req.error \in {NoError, errUnknownObject, errInternalFailure}
          THEN /\ rsp'.err = NoError
               /\ RequestedAddr4(req.channel, req.address, req.prefix)
                      \in ipObjs'[req.channel]
          ELSE rsp'.err = req.error /\ UNCHANGED backend

Addr4(address, prefix) ==
    [protocol |-> "IPv4", address |-> address, prefix |-> prefix,
     origin |-> "Static"]

\* the handler has run Set IP or Set SubnetMask with a well-formed payload
\* on an interface whose DHCP mode lets it through
ReconfiguredBySet(parameter, data) ==
    /\ req.cmd = "request" /\ req'.cmd = "setLan"
    /\ ~SetLanRejected(req.channel, req.reserved)
    /\ req.parameter = parameter /\ req.data = data
    /\ getDHCPProperty(DHCPEnabled[req.channel]) \in {"none", "v6"}

C25_Step ==
    LET ips == ipObjs[req.channel]
        after == getIfAddr4(ipObjs'[req.channel])
        ifaddr == getIfAddr4(ips)
        old == CHOOSE o \in ifaddr : TRUE
    IN  /\ ReconfiguredBySet("IP", <<192, 168, 0, 20>>) =>
              /\ rsp'.cc = ccSuccess
              /\ after = {Addr4(addrToString(<<192, 168, 0, 20>>),
                                IF ifaddr = {} THEN defaultPrefix
                                ELSE old.prefix)}
        /\ ReconfiguredBySet("SubnetMask", <<255, 255, 0, 0>>) =>
              IF ifaddr = {}
                THEN rsp'.cc = ccUnspecifiedError /\ UNCHANGED backend
                ELSE /\ rsp'.cc = ccSuccess
                     /\ after = {Addr4(old.address, 16)}

\* C25: on an interface with the IPv4 address A/P, Set IP X leaves it with
\* X/P and Set SubnetMask of prefix Q leaves it with A/Q; on an interface
\* without IPv4 address Set IP X creates X with the default prefix 32 and
\* Set SubnetMask fails and neither deletes nor creates an object.
C25_ReadModifyWrite == [][C25_Step]_vars

(***************************************************************************)
(* reconfigureGatewayMAC                                                   *)
(***************************************************************************)
GatewayOf(c, family) ==
    IF family = "IPv4" THEN getGatewayProperty4(DefaultGateway[c])
    ELSE getGatewayProperty6(DefaultGateway6[c])

\* the static neighbors of the address among neighs
NeighborsOf(neighs, family, ip) ==
    {n \in neighs : maybeStringToAddr(family, n.ip) = {ip}}

C26_Step ==
    (req.cmd = "mac" /\ req'.cmd = "reconfigureGatewayMAC") =>
        LET c == req.channel
            gateway == GatewayOf(c, req.family)
            g == CHOOSE x \in gateway : TRUE
        IN  IF gateway = {}
              THEN rsp'.err = "InternalFailure" /\ UNCHANGED backend
              ELSE /\ rsp'.err = NoError
                   /\ \E n \in neighObjs'[c] :
                        /\ NeighborsOf(neighObjs'[c], req.family, g) = {n}
                        /\ stringToMAC(n.mac) = req.mac
                   /\ neighObjs'[c] \ NeighborsOf(neighObjs'[c], req.family, g)
                        = neighObjs[c] \ NeighborsOf(neighObjs[c], req.family, g)

SetNeighborMACNotUnicast ==
    /\ req.cmd = "request" /\ req'.cmd = "setLan"
    /\ ~SetLanRejected(req.channel, req.reserved)
    /\ req.parameter \in {"Gateway1MAC", "IPv6StaticRouter1MAC"}
    /\ Len(req.data) = 6
    /\ ~isValidMACAddress(req.data)

C27_Step ==
    SetNeighborMACNotUnicast =>
        rsp'.cc = ccInvalidFieldRequest /\ UNCHANGED backend

\* C27: Set Gateway1MAC and Set IPv6StaticRouter1MAC with the all-zero MAC
\* or a MAC whose multicast bit is set return invalid-field-in-request and
\* create or delete no neighbor.
C27_OnlyUnicastNeighborMAC == [][C27_Step]_vars

(***************************************************************************)
(* The slots of the static IPv6 addresses                                  *)
(***************************************************************************)
\* the static IPv6 addresses among the address objects
Statics6(ips) ==
    {o \in ips : o.protocol = "IPv6" /\ o.origin \in originsV6Static}

\* the fields of the payload of Set IPv6StaticAddresses
SlotOf(data) == data[1]
EnabledOf(data) == data[2] \div 128
Addr6Of(data) ==
    [protocol |-> "IPv6", address |-> addrToString6(SubSeq(data, 3, 18)),
     prefix |-> data[19], origin |-> "Static"]

C28_Step ==
    \A c \in Channels :
        (/\ req'.cmd = "setLan" /\ req'.parameter = "IPv6StaticAddresses"
         /\ ~SetLanRejected(req'.channel, req'.reserved)
         /\ req'.channel = c) =>
            LET ips == ipObjs[c]
                slot == findIfAddr(ips, "IPv6", SlotOf(req'.data),
                                   originsV6Static)
                new == Addr6Of(req'.data)
            IN  /\ rsp'.cc = ccSuccess
                /\ EnabledOf(req'.data) = 0 => ipObjs'[c] = ips \ slot
                /\ EnabledOf(req'.data) = 1 =>
                      /\ ipObjs'[c] = (ips \ slot) \cup {new}
                      /\ new \notin ips =>
                            Cardinality(Statics6(ipObjs'[c])) =
                                Cardinality(Statics6(ips)) +
                                    (IF slot = {} THEN 1 ELSE 0)

C29_NeverMoreThanMax ==
    \A c \in Channels :
        Cardinality(Statics6(ipObjs[c])) <= MAX_IPV6_STATIC_ADDRESSES

(***************************************************************************)
(* deconfigureChannel                                                      *)
(***************************************************************************)
C30_Step ==
    (req.cmd = "params" /\ req'.cmd = "deconfigureChannel") =>
        LET c == req.channel
        IN  /\ ipObjs'[c] = {} /\ neighObjs'[c] = {}
            /\ logicalPath'[c] = 0
            /\ getDHCPProperty(DHCPEnabled'[c]) = "none"
            /\ UNCHANGED <<DefaultGateway, DefaultGateway6, MACAddress>>

DeconfigureOps == DeleteOps \cup {"GetSubTree", "setDHCPv6Property.none"}

\* the place of a restore call among the restore calls
RestoreRank(op) ==
    CASE op = "setDHCPv6Property" -> 1
      [] op = "createIfAddr4" -> 2
      [] op = "createIfAddr6" -> 3
      [] op = "createNeighbor4" -> 4
      [] op = "createNeighbor6" -> 5

\* reconfigureVLAN has run without fault
RanWithoutFault == req.cmd = "reconfigureVLAN" /\ req.fault = NoFault

\* C31: in a run of reconfigureVLAN the five reads of the settings are the
\* first calls, before the subtree query and every Delete; createVLAN is
\* called after the last call of deconfigureChannel and not at all for the
\* id 0; the restore calls follow it in the order DHCP mode, IPv4 address,
\* IPv6 addresses, neighbors, each sent to the logical path createVLAN left
\* in params.
C31_FixedOrder ==
    RanWithoutFault =>
        LET trace == rsp.trace
            at(ops) == {i \in 1..Len(trace) : trace[i].op \in ops}
        IN  /\ at(ReadOps) = 1..5
            /\ \A i \in at(ReadOps), j \in at(DeconfigureOps) : i < j
            /\ \A i \in at(DeconfigureOps), j \in at({"createVLAN"}) : i < j
            /\ at({"createVLAN"}) = {} <=> req.vlan = 0
            /\ \A i \in at(DeconfigureOps \cup {"createVLAN"}),
                  j \in at(RestoreOps) : i < j
            /\ \A i \in at(RestoreOps), j \in at(RestoreOps) :
                  i < j => RestoreRank(trace[i].op) <= RestoreRank(trace[j].op)
            /\ at({"setDHCPv6Property"}) # {}
            /\ \A j \in at(RestoreOps) :
                  /\ trace[j].path = req.vlan
                  /\ trace[j].path = rsp.path

C31_Witness ==
    LET ops == {rsp.trace[i].op : i \in 1..Len(rsp.trace)}
    IN  /\ RanWithoutFault /\ req.vlan = 100
        /\ {"DeleteVLAN", "DeleteIP", "DeleteNeighbor", "createVLAN"} \subseteq ops
        /\ RestoreOps \subseteq ops
        /\ rsp.trace[Len(rsp.trace)].op = "createNeighbor6"
        /\ rsp.trace[Len(rsp.trace)].path = 100
        /\ logicalPath[req.channel] = 100

(***************************************************************************)
(* A call of reconfigureVLAN that fails after the deleting began           *)
(***************************************************************************)
\* the fault of the request is raised by the k-th call of reconfigureVLAN,
\* after a Delete of deconfigureChannel has returned
FailsAfterDelete(calls, fault) ==
    /\ fault.at \in 1..Len(calls)
    /\ ~(/\ calls[fault.at].op \in DeleteOps
         /\ fault.error \in {errInternalFailure, errUnknownObject})
    /\ \E i \in 1..(fault.at - 1) : calls[i].op \in DeleteOps

\* C32: when a call of reconfigureVLAN fails after deconfigureChannel has
\* deleted an object, the function ends with that error and nothing is put
\* back: the calls made are the calls up to the failing one and no other,
\* an object that was deleted is gone unless a restore call that had
\* already returned created it again, nothing is there but what was not
\* yet deleted and what those restore calls created, and the VLAN object
\* that was deleted is gone unless createVLAN had returned.
C32_NoRollback ==
    [][\A c \in NetChannels :
        (req.cmd = "vlan" /\ req.channel = c) =>
          LET ch == Chan(c)
              calls == reconfigureVLANCalls(ch, req.vlan)
              k == req.fault.at
              returned(ops) == {calls[i].arg : i \in {j \in 1..(k - 1) :
                                                        calls[j].op \in ops}}
              created == returned({"createIfAddr4", "createIfAddr6"})
              restored(n) ==
                  IF Len(n.ip) = 4 THEN returned({"createNeighbor4"}) # {}
                  ELSE returned({"createNeighbor6"}) # {}
              after == ChanNext(c)
          IN  FailsAfterDelete(calls, req.fault) =>
                /\ rsp'.err = req.fault.error
                /\ Len(rsp'.trace) = k
                /\ \A i \in 1..k : /\ rsp'.trace[i].op = calls[i].op
                                   /\ rsp'.trace[i].arg = calls[i].arg
                                   /\ rsp'.trace[i].ok = (i < k)
                /\ \A o \in after.ipObjs :
                      \/ o \in ch.ipObjs \ returned({"DeleteIP"})
                      \/ \E n \in created : /\ n.address = o.address
                                            /\ n.prefix = o.prefix
                /\ \A o \in returned({"DeleteIP"}) :
                      (\A n \in created : n.address # o.address) =>
                          o \notin after.ipObjs
                /\ \A n \in returned({"DeleteNeighbor"}) :
                      ~restored(n) => n \notin after.neighObjs
                /\ \A n \in after.neighObjs :
                      \/ n \in ch.neighObjs \ returned({"DeleteNeighbor"})
                      \/ restored(n)
                /\ (returned({"createVLAN"}) = {}) => after.logicalPath = 0
    ]_vars

C32_Witness ==
    LET trace == rsp.trace
        n == Len(trace)
    IN  /\ req.cmd = "reconfigureVLAN"
        /\ rsp.err = errNotAllowed
        /\ n > 0 /\ trace[n].op = "createVLAN" /\ ~trace[n].ok
        /\ \E i, j, k \in 1..(n - 1) : /\ trace[i].op = "DeleteVLAN"
                                       /\ trace[j].op = "DeleteIP"
                                       /\ trace[k].op = "DeleteNeighbor"
        /\ ipObjs[req.channel] = {}
        /\ neighObjs[req.channel] = {}
        /\ logicalPath[req.channel] = 0


(***************************************************************************)
(* Requests on a backend whose calls may fail: a sequence of Set IP, Set   *)
(* SubnetMask and Set VLANId, each with the reply of the Delete call or    *)
(* the call of reconfigureVLAN that fails.                                 *)
(***************************************************************************)
\* setLan, case LanParam::IP; error is the reply of the Delete call
setLanIPUnder(iface, data, error) ==
    IF dhcpV4Active(iface) THEN {Respond(ccCommandNotAvailable, iface)}
    ELSE IF Len(data) # 4 THEN {Respond(ccReqDataLenInvalid, iface)}
    ELSE {AddrOutcome(iface, r) :
            r \in reconfigureIfAddr4On(iface.ipObjs, {data}, {}, error)}

\* setLan, case LanParam::SubnetMask; error is the reply of the Delete call
setLanSubnetMaskUnder(iface, data, error) ==
    IF dhcpV4Active(iface) THEN {Respond(ccCommandNotAvailable, iface)}
    ELSE IF Len(data) # 4 THEN {Respond(ccReqDataLenInvalid, iface)}
    ELSE LET prefix == netmaskToPrefix(data)
         IN  IF prefix.err # "" THEN {Respond(ccUnspecifiedError, iface)}
             ELSE {AddrOutcome(iface, r) :
                     r \in reconfigureIfAddr4On(iface.ipObjs, {},
                                                {prefix.val}, error)}

\* setLan, case LanParam::VLANId; fault is the call of reconfigureVLAN that
\* fails, d the DHCP mode of a new VLAN object.  The id of a disable is
\* stored before reconfigureVLAN is called.
setLanVLANIdUnder(m, ch, channel, data, fault, d) ==
    IF Len(data) # 2 THEN VlanOutcome(ccReqDataLenInvalid, ch, m)
    ELSE
      LET value == data[1] + 256 * data[2]
          vlanData == value % 4096
          reserved == (value \div 4096) % 8
          vlanEnable == value \div 32768
          stored == IF vlanEnable = 0 THEN MapPut(m, channel, vlanData) ELSE m
          r == reconfigureVLANOn(ch, IF vlanEnable = 0 THEN 0 ELSE vlanData,
                                 fault, d)
      IN  IF reserved # 0 THEN VlanOutcome(ccInvalidFieldRequest, ch, m)
          ELSE IF vlanEnable # 0 /\ (vlanData = 0 \/ vlanData = VLAN_VALUE_MASK)
            THEN VlanOutcome(ccInvalidFieldRequest, ch, m)
          ELSE IF r.err # NoError
            THEN VlanOutcome(ccUnspecifiedError, r.chan, stored)
          ELSE VlanOutcome(ccSuccess, r.chan, stored)

\* a request arrives while the interface holds at most one address object
FewAddrs(channel) == Cardinality(ipObjs[channel]) <= 1

\* no fault, and a fault at a Delete, at createVLAN and at the restore of
\* the IPv4 address
VlanFaults(ch, vlan) ==
    LET calls == reconfigureVLANCalls(ch, vlan)
    IN  {f \in FaultsOf(ch, vlan) :
            f.at > 0 => calls[f.at].op \in
                           DeleteOps \cup {"createVLAN", "createIfAddr4"}}

FaultIPPayloads == {<<192, 168, 0, 20>>, <<10, 0, 0, 7>>}
FaultVlanPayloads ==
    {VlanPayload(7, 0, 0), VlanPayload(100, 0, 1), VlanPayload(7, 4, 0)}

\* the id reconfigureVLAN is called with for a payload
VlanOf(data) ==
    LET value == data[1] + 256 * data[2]
    IN  IF value \div 32768 = 0 THEN 0 ELSE value % 4096

Fault_SetLanIP ==
    \E channel \in NetChannels, data \in FaultIPPayloads, error \in DeleteErrors :
        /\ FewAddrs(channel)
        /\ req' = SetLanReq(channel, 0, "IP", data) @@ [fault |-> error]
        /\ latchBefore' = -2
        /\ UNCHANGED clients
        /\ \E o \in setLanIPUnder(Iface(channel), data, error) :
               ApplyOutcome(channel, o)

Fault_SetLanSubnetMask ==
    \E channel \in NetChannels, error \in DeleteErrors :
        LET data == <<255, 255, 0, 0>>
        IN  /\ FewAddrs(channel)
            /\ req' = SetLanReq(channel, 0, "SubnetMask", data) @@
                      [fault |-> error]
            /\ latchBefore' = -2
            /\ UNCHANGED clients
            /\ \E o \in setLanSubnetMaskUnder(Iface(channel), data, error) :
                   ApplyOutcome(channel, o)

Fault_SetLanVLANId ==
    \E channel \in NetChannels, data \in FaultVlanPayloads, d \in {"none"} :
      \E fault \in VlanFaults(Chan(channel), VlanOf(data)) :
        /\ FewAddrs(channel)
        /\ req' = SetLanReq(channel, 0, "VLANId", data) @@ [fault |-> fault]
        /\ latchBefore' = -2
        /\ UNCHANGED clients
        /\ LET o == setLanVLANIdUnder(lastDisabledVlan, Chan(channel),
                                      channel, data, fault, d)
           IN  /\ WriteChan(channel, o.chan)
               /\ lastDisabledVlan' = o.map
               /\ rsp' = Reply(o.cc, <<>>)
               /\ UNCHANGED setStatus

\* interfaces with at most one IPv4 address, static, and no DHCP
FaultFulls ==
    {f \in InitFulls : /\ getDHCPProperty(f.DHCPEnabled) = "none"
                       /\ f.DefaultGateway6 = <<>>
                       /\ \A o \in f.ipObjs : o.protocol = "IPv4"}

InitFaults ==
    \E full \in FaultFulls, m \in InitMaps :
        /\ InitFull(full, m)
        /\ req = NoReq

NextFaults ==
    \/ Fault_SetLanIP
    \/ Fault_SetLanSubnetMask
    \/ Fault_SetLanVLANId

SpecFaults == InitFaults /\ [][NextFaults]_vars

\* the IPv4 addresses of the interface that getIfAddr4 looks among
Addrs4(c) ==
    {o \in ipObjs[c] : o.protocol = "IPv4" /\ o.origin \in originsV4}

\* C33: an interface that starts with at most one Static/DHCP-origin IPv4
\* address has at most one after every sequence of Set IP, Set SubnetMask
\* and Set VLANId, whatever the Delete calls reply.
C33_AtMostOneAddr4 == \A c \in NetChannels : Cardinality(Addrs4(c)) <= 1


\* the id Get VLANId reads from lastDisabledVlan: operator[] of the map
\* gives 0 for a channel without entry
lastDisabledVlanOf(m, channel) ==
    IF channel \in DOMAIN m THEN m[channel] ELSE 0

\* a Set VLANId with the enable bit clear has ended with the error of a
\* call of reconfigureVLAN
FailedDisable(r, response) ==
    /\ r.cmd = "setLan" /\ r.parameter = "VLANId"
    /\ Len(r.data) = 2 /\ r.data[2] \div 128 = 0
    /\ response.cc = ccUnspecifiedError

\* C38: when Set VLANId with enable = 0 ends with a backend error raised
\* inside reconfigureVLAN, the id stored in lastDisabledVlan for the channel
\* is the one stored before the request.
C38_FailedDisableKeepsId ==
    [][\A c \in NetChannels :
        (FailedDisable(req', rsp') /\ req'.channel = c) =>
            lastDisabledVlanOf(lastDisabledVlan', c) =
                lastDisabledVlanOf(lastDisabledVlan, c)]_vars


PathRoot == <<47>>
\* "eth0", "eth1", "eth10"
IfNames == {<<101, 116, 104, 48>>, <<101, 116, 104, 49>>,
            <<101, 116, 104, 49, 48>>}
\* "_100", "/ip", "/nb": what follows the interface name in the path of its
\* VLAN object, of an address object and of a neighbor object
VlanSuffix == <<95, 49, 48, 48>>
AddrSuffix == <<47, 105, 112>>
NeighSuffix == <<47, 110, 98>>

TreeObj(owner, kind, suffix) ==
    [path |-> PathRoot \o owner \o suffix, owner |-> owner, kind |-> kind]

\* std::string::find(ifname) # npos
pathFind(path, ifname) ==
    \E i \in 1..(Len(path) - Len(ifname) + 1) :
        SubSeq(path, i, i + Len(ifname) - 1) = ifname

\* the first object of a non-empty set in the order of the ObjectTree, a
\* std::map keyed by path
FirstByPath(objs) ==
    CHOOSE o \in objs : \A p \in objs \ {o} : LexLess(o.path, p.path)

\* maybeGetChannelParams on the objects that implement the VLAN or the
\* ethernet interface; a VLAN object implements both.  {} is std::nullopt.
maybeGetChannelParams(objs, ifname) ==
    LET seen == {o \in objs : /\ o.kind \in {"ethernet", "vlan"}
                              /\ pathFind(o.path, ifname)}
        physical == {o \in seen : o.kind = "ethernet"}
        vlans == {o \in seen : o.kind = "vlan"}
    IN  IF physical = {} THEN {}
        ELSE LET ifPath == FirstByPath(physical)
             IN  {[ifname |-> ifname, ifPath |-> ifPath,
                   logicalPath |-> IF vlans = {} THEN ifPath
                                   ELSE FirstByPath(vlans)]}

\* the objects deconfigureChannel deletes: those that implement Delete and
\* whose path contains params.ifname
deconfigureChannelDeletes(objs, params) ==
    {o \in objs : /\ o.kind \in {"vlan", "ip", "neighbor"}
                  /\ pathFind(o.path, params.ifname)}

\* the objects of one interface: the ethernet object and any of a VLAN, an
\* address and a neighbor
TreesOf(owner) ==
    {{TreeObj(owner, "ethernet", <<>>)} \cup extra :
        extra \in SUBSET {TreeObj(owner, "vlan", VlanSuffix),
                          TreeObj(owner, "ip", AddrSuffix),
                          TreeObj(owner, "neighbor", NeighSuffix)}}

Call_maybeGetChannelParams ==
    /\ req.cmd = "tree"
    /\ req' = [req EXCEPT !.cmd = "maybeGetChannelParams"]
    /\ rsp' = [params |-> maybeGetChannelParams(req.objs, req.ifname),
               deleted |-> {}]
    /\ UNCHANGED <<setStatus, lastDisabledVlan, latchBefore, clients, backend>>

Call_deconfigureChannelTree ==
    /\ req.cmd = "tree"
    /\ maybeGetChannelParams(req.objs, req.ifname) # {}
    /\ req' = [req EXCEPT !.cmd = "deconfigureChannel"]
    /\ LET params == maybeGetChannelParams(req.objs, req.ifname)
           deleted == deconfigureChannelDeletes(req.objs,
                                                CHOOSE p \in params : TRUE)
       IN  rsp' = [params |-> params, deleted |-> deleted]
    /\ UNCHANGED <<setStatus, lastDisabledVlan, latchBefore, clients, backend>>

\* two interfaces with distinct names; the request is for the first
InitNames ==
    \E a \in IfNames, b \in IfNames :
      \E ta \in TreesOf(a), tb \in TreesOf(b) :
        /\ a # b
        /\ InitFull(InitChan(IdleIface, 0, FALSE, [gw |-> <<>>, neigh |-> {}],
                             [gw |-> <<>>, neigh |-> {}], 0) @@
                        [MACAddress |-> ether_ntoa(InitialMAC)],
                    [status |-> EmptyMap, vlans |-> EmptyMap])
        /\ req = [cmd |-> "tree", ifname |-> a, other |-> b,
                  objs |-> ta \cup tb]

NextNames ==
    \/ Call_maybeGetChannelParams
    \/ Call_deconfigureChannelTree

SpecNames == InitNames /\ [][NextNames]_vars

\* C35: with two interfaces of distinct names a and b, deconfigureChannel on
\* the channel of a deletes no address, neighbor or VLAN object of b, and
\* the resolution of the channel of a selects no object of b as ifPath or
\* as logicalPath.
C35_OtherInterfaceUntouched ==
    req.cmd \in {"maybeGetChannelParams", "deconfigureChannel"} =>
        /\ \A o \in rsp.deleted : o.owner = req.ifname
        /\ \A p \in rsp.params : /\ p.ifPath.owner = req.ifname
                                 /\ p.logicalPath.owner = req.ifname


(***************************************************************************)
(* The two maps under requests on every channel                            *)
(***************************************************************************)
\* two disables with different ids
MapsVlanPayloads == {VlanPayload(7, 0, 0), VlanPayload(9, 0, 0)}

SetLan_VLANIdMaps == SetLanVLANIdOn(Channels, MapsVlanPayloads)

NextMaps ==
    \/ SetLan_SetStatus
    \/ SetLan_VLANIdMaps

SpecMaps == Init /\ [][NextMaps]_vars

\* the entry of a channel in both maps is what it was
SameEntries(c) ==
    /\ (c \in DOMAIN setStatus') = (c \in DOMAIN setStatus)
    /\ Stored(setStatus', c) = Stored(setStatus, c)
    /\ (c \in DOMAIN lastDisabledVlan') = (c \in DOMAIN lastDisabledVlan)
    /\ lastDisabledVlanOf(lastDisabledVlan', c) =
           lastDisabledVlanOf(lastDisabledVlan, c)

C36_Step ==
    \A c \in Channels :
        (/\ req'.cmd = "setLan" /\ req'.parameter \in {"SetStatus", "VLANId"}
         /\ req'.channel = c) =>
            /\ \A other \in Channels \ {c} : SameEntries(other)
            /\ (/\ req'.parameter = "SetStatus"
                /\ req'.data = <<InProgress>>
                /\ ~SetLanRejected(c, req'.reserved)
                /\ Stored(setStatus, c) # InProgress) =>
                   rsp'.cc = ccSuccess

\* C36: a Set SetStatus or a Set VLANId on the channel c changes the entry
\* of no other channel in setStatus and in lastDisabledVlan, and a Set
\* SetStatus = InProgress on a channel whose own status is not InProgress
\* succeeds whatever the status of the other channels.
C36_PerChannelMaps == [][C36_Step]_vars

C36_Witness ==
    /\ req.cmd = "setLan" /\ req.parameter = "SetStatus"
    /\ req.channel = 2 /\ req.data = <<InProgress>> /\ rsp.cc = ccSuccess
    /\ latchBefore # InProgress
    /\ Stored(setStatus, 1) = InProgress /\ Stored(setStatus, 2) = InProgress
    /\ lastDisabledVlanOf(lastDisabledVlan, 1) = 7
    /\ lastDisabledVlanOf(lastDisabledVlan, 2) = 9


(***************************************************************************)
(* Get requests only: any sequence of Get LAN Configuration Parameters on  *)
(* an interface in one of its configurations.                              *)
(***************************************************************************)
\* the parameters getLan has a case for in the model, and one it has none
ReadParams == GetParams \cup {"VLANId", "IPv6StaticAddresses", "Gateway2"}

GetLan_Any ==
    GetLanWith(Headers(ChannelInputs), BOOLEAN, ReadParams, {0}, {0})

\* DHCP off or on for both families, with and without an IPv4 address and
\* a VLAN, one static IPv6 address, the IPv4 gateway with its neighbor
ReadFulls ==
    {f \in InitFulls : /\ getDHCPProperty(f.DHCPEnabled) \in {"none", "both"}
                       /\ \E o \in f.ipObjs : o.protocol = "IPv6"
                       /\ f.DefaultGateway6 = <<>>
                       /\ f.neighObjs # {}}

InitRead ==
    \E full \in ReadFulls, m \in InitMaps :
        /\ InitFull(full, m)
        /\ req = NoReq

NextRead ==
    \/ GetLan_Any
    \/ GetLan_IPv6StaticAddresses

SpecRead == InitRead /\ [][NextRead]_vars

C37_Step ==
    req'.cmd = "getLan" =>
        /\ backend' = backend
        /\ \A c \in Channels :
              /\ getSetStatus(setStatus', c) = getSetStatus(setStatus, c)
              /\ lastDisabledVlanOf(lastDisabledVlan', c) =
                     lastDisabledVlanOf(lastDisabledVlan, c)
        /\ req' = req => rsp' = rsp
        /\ \A c \in Channels :
              (/\ req'.channel = c /\ req'.reserved = 0 /\ ~req'.revOnly
               /\ req'.parameter = "SetStatus"
               /\ c \notin DOMAIN setStatus) =>
                  /\ rsp'.cc = ccSuccess
                  /\ rsp'.data = <<current_revision, Complete>>

\* C37: a Get LAN Configuration Parameters request changes no object and no
\* property of the backend and no value that can be read from setStatus or
\* lastDisabledVlan; a Get that repeats the preceding Get has the same
\* response; Get SetStatus on a channel without stored status reports
\* Complete.
C37_GetReadOnly == [][C37_Step]_vars

C37_Witness ==
    /\ req.cmd = "getLan" /\ req.parameter = "VLANId" /\ ~req.revOnly
    /\ req.channel = 1 /\ req.reserved = 0
    /\ rsp.cc = ccSuccess /\ rsp.data = <<current_revision, 7, 0>>
    /\ lastDisabledVlanOf(lastDisabledVlan, 1) = 7
    /\ 2 \in DOMAIN lastDisabledVlan
    /\ Stored(setStatus, 1) = InProgress
    /\ \E o \in ipObjs[1] : o.protocol = "IPv4"


(***************************************************************************)
(* Set IPSrc followed by Get IPSrc                                         *)
(***************************************************************************)
\* the request is a Set IPSrc that reached the case of the parameter
IsSetIPSrc(r) ==
    /\ r.cmd = "setLan" /\ r.parameter = "IPSrc"
    /\ ~SetLanRejected(r.channel, r.reserved)
    /\ Len(r.data) = 1

C39_Step ==
    /\ (/\ IsSetIPSrc(req) /\ rsp.cc = ccSuccess
        /\ req'.cmd = "getLan" /\ req'.parameter = "IPSrc"
        /\ req'.channel = req.channel /\ req'.reserved = 0) =>
           /\ rsp'.cc = ccSuccess
           /\ req.data[1] = IPSrcDHCP =>
                  rsp'.data = <<current_revision, IPSrcDHCP>>
           /\ req.data[1] \in {IPSrcStatic, IPSrcUnspecified} =>
                  rsp'.data = <<current_revision, IPSrcStatic>>
    /\ IsSetIPSrc(req') =>
           /\ rsp'.cc = ccSuccess <=>
                  req'.data[1] \in {IPSrcDHCP, IPSrcStatic, IPSrcUnspecified}
           /\ (\/ req'.data[1] \div 16 # 0
               \/ req'.data[1] \in {IPSrcBIOS, IPSrcBMC}) =>
                  /\ rsp'.cc = ccInvalidFieldRequest
                  /\ DHCPEnabled' = DHCPEnabled

\* C39: from every DHCP mode, Get IPSrc after a successful Set IPSrc = DHCP
\* reports DHCP and after a successful Set IPSrc = Static or Unspecified
\* reports Static; Set IPSrc = BIOS or BMC, or with reserved bits, answers
\* invalid-field-in-request and leaves the DHCP mode as it was.
C39_IPSrcRoundTrip == [][C39_Step]_vars

C39_Witness ==
    /\ req.cmd = "getLan" /\ req.parameter = "IPSrc" /\ req.reserved = 0
    /\ req.channel \in NetChannels
    /\ rsp.cc = ccSuccess /\ rsp.data = <<current_revision, IPSrcDHCP>>
    /\ getDHCPProperty(DHCPEnabled[req.channel]) = "both"


(***************************************************************************)
(* Set SOL Configuration Parameters, case sol::Parameter::progress.  The   *)
(* Progress property lives on the SOL object of the channel's interface;   *)
(* every channel of Channels is a LAN channel (medium type lan8032).       *)
(***************************************************************************)
progressMask == 3
ccSetInProgressActive == "set-in-progress-active"

\* what can go wrong at the backend: no SOL service is found, reading the
\* property throws, writing the property throws
SolFaults == {"none", "service", "get", "set"}

\* getSOLParameter: -1 without a service or when the read throws, else 0
\* with the value read
getSOLParameter(value, fault) ==
    IF fault \in {"service", "get"} THEN [rc |-> -1, value |-> 0]
    ELSE [rc |-> 0, value |-> value]

\* setSOLParameter: -1 without a service or when the write throws, else 0
\* with the value stored
setSOLParameter(old, value, fault) ==
    IF fault \in {"service", "set"} THEN [rc |-> -1, value |-> old]
    ELSE [rc |-> 0, value |-> value]

\* the progress case without the comparison with the current value
setSOLConfParams_NoLatch(current, channel, reserved, data, fault) ==
    IF reserved # 0 \/ ~isValidChannel(channel)
    THEN [cc |-> ccInvalidFieldRequest, Progress |-> current]
    ELSE IF Len(data) > 1
    THEN [cc |-> ccReqDataLenInvalid, Progress |-> current]
    ELSE LET progress == data[1] % (progressMask + 1)
             got == getSOLParameter(current, fault)
             put == setSOLParameter(current, progress, fault)
         IN  IF got.rc < 0
             THEN [cc |-> ccUnspecifiedError, Progress |-> current]
             ELSE IF put.rc < 0
             THEN [cc |-> ccUnspecifiedError, Progress |-> put.value]
             ELSE [cc |-> ccSuccess, Progress |-> put.value]

\* setSOLConfParams with paramSelector = progress: the completion code and
\* the Progress property afterwards; data holds configParamData1 and, when
\* present, configParamData2
setSOLConfParams(current, channel, reserved, data, fault) ==
    IF reserved # 0 \/ ~isValidChannel(channel)
    THEN [cc |-> ccInvalidFieldRequest, Progress |-> current]
    ELSE IF Len(data) > 1
    THEN [cc |-> ccReqDataLenInvalid, Progress |-> current]
    ELSE LET progress == data[1] % (progressMask + 1)
             got == getSOLParameter(current, fault)
             put == setSOLParameter(current, progress, fault)
         IN  IF got.rc < 0
             THEN [cc |-> ccUnspecifiedError, Progress |-> current]
             ELSE IF got.value = 1 /\ progress = 1
             THEN [cc |-> ccSetInProgressActive, Progress |-> current]
             ELSE IF put.rc < 0
             THEN [cc |-> ccUnspecifiedError, Progress |-> put.value]
             ELSE [cc |-> ccSuccess, Progress |-> put.value]

\* configParamData1 alone, with and without the bits above the mask, and
\* requests that carry configParamData2
SolPayloads == {<<0>>, <<1>>, <<2>>, <<3>>, <<5>>, <<252>>, <<1, 0>>}

SetSOLConfParams_Progress ==
    \E h \in Headers(ChannelInputs), data \in SolPayloads, fault \in SolFaults :
        LET current == IF isValidChannel(h[1]) THEN solProgress[h[1]] ELSE 0
            r == setSOLConfParams(current, h[1], h[2], data, fault)
        IN  /\ req' = [cmd |-> "setSOLConfParams", channel |-> h[1],
                       reserved |-> h[2], parameter |-> "progress",
                       data |-> data, fault |-> fault]
            /\ rsp' = Reply(r.cc, <<>>)
            /\ solProgress' = IF isValidChannel(h[1])
                              THEN [solProgress EXCEPT ![h[1]] = r.Progress]
                              ELSE solProgress
            /\ UNCHANGED <<setStatus, lastDisabledVlan, latchBefore, clients,
                           DHCPEnabled, ipObjs, DefaultGateway, MACAddress,
                           logicalPath, neighObjs, DefaultGateway6>>

NextSol == SetSOLConfParams_Progress

SpecSol == Init /\ [][NextSol]_vars

\* a Set SOL progress request with the reserved bits clear, a valid channel
\* and no second data byte
IsSetProgress(r) ==
    /\ r.cmd = "setSOLConfParams" /\ r.parameter = "progress"
    /\ r.reserved = 0 /\ isValidChannel(r.channel) /\ Len(r.data) = 1

C40_Step ==
    IsSetProgress(req') =>
        LET c == req'.channel
            progress == req'.data[1] % 4
            latched == solProgress[c] = 1 /\ progress = 1
        IN  /\ req'.fault \in {"service", "get"} =>
                   rsp'.cc = ccUnspecifiedError /\ solProgress' = solProgress
            /\ (req'.fault \in {"none", "set"} /\ latched) =>
                   rsp'.cc = ccSetInProgressActive /\ solProgress' = solProgress
            /\ (req'.fault = "set" /\ ~latched) =>
                   rsp'.cc = ccUnspecifiedError /\ solProgress' = solProgress
            /\ (req'.fault = "none" /\ ~latched) =>
                   /\ rsp'.cc = ccSuccess
                   /\ solProgress' = [solProgress EXCEPT ![c] = progress]

\* C40: Set SOL progress whose progress field (the low two bits of the data
\* byte) is 1 while the Progress property of the channel is 1 answers
\* set-in-progress-active and writes nothing; for every other pair of current
\* and requested value the low two bits are written to Progress and the
\* request succeeds; when the backend read fails, or the write that is
\* attempted fails, the answer is unspecified-error and Progress keeps its
\* value.
C40_SolProgressLatch == [][C40_Step]_vars

C40_Witness ==
    /\ IsSetProgress(req) /\ req.fault = "none" /\ req.data = <<5>>
    /\ rsp.cc = ccSetInProgressActive
    /\ solProgress[req.channel] = 1
    /\ \E c \in Channels : solProgress[c] = 3

====
